---- MODULE Spec2Model ----
(***************************************************************************)
(* Composable domain models: the function/enhancer realization             *)
(* (composeModel, createModelFactory, the behaviours), the fp realization  *)
(* (combine) and the class/mixin realization (applyMixins, createFactory). *)
(*                                                                         *)
(* JavaScript values are tagged records [t, v]; an object is a function    *)
(* from its own keys to values; time is counted in days since the epoch.   *)
(***************************************************************************)
EXTENDS Integers, Sequences, FiniteSets, TLC

VARIABLES
    mode,       \* which entry point of the library this run exercises
    now,        \* the wall clock read by `new Date()`
    src,        \* per derivation: the source record the caller passed
    given,      \* per derivation: the source record as it was at the call
    pipe,       \* per derivation: the enhancer list
    status,     \* per derivation: idle | running | returned | raised
    stack,      \* per derivation: the active build() frames, innermost last
    result,     \* per derivation: the view composeModel returned
    error,      \* per derivation: the error composeModel raised
    log,        \* per derivation: one entry per enhancer invocation
    seeds,      \* per derivation: the seed of each build(), by build number
    defaulted,  \* per derivation: view paths holding a `new Date()` default
    bound,      \* the enhancer list bound by createModelFactory()(E)
    viaFactory, \* per derivation: was it started through the bound factory
    mapped,     \* combine: the results of fns.map so far
    inst,       \* class realization: the constructed instance
    probe,      \* consumer: the field or guard observed, first and last result
    toggle,     \* consumer: useWatchableToggle's local state
    notes,      \* consumer: notifications emitted by the toggle setter
    asked,      \* consumer: a value handed to the guards and the answers
    twin,       \* class realization: a second instance of the same class
    resolved    \* a call of resolveSelector: its arguments and what it did

vars == <<mode, now, src, given, pipe, status, stack, result, error, log,
          seeds, defaulted, bound, viaFactory, mapped, inst, probe, toggle,
          notes, asked, twin, resolved>>

-----------------------------------------------------------------------------
(* Bounds *)

MaxLen == 2        \* longest enhancer list / mixin list
MaxTicks == 1      \* how far the clock advances
MaxSets == 2       \* toggle setter calls
MaxReads == 2      \* reads of author on one instance

-----------------------------------------------------------------------------
(* JavaScript values *)

Undefined == [t |-> "undefined", v |-> 0]
Null == [t |-> "null", v |-> 0]
Bool(b) == [t |-> "boolean", v |-> b]
Str(s) == [t |-> "string", v |-> s]
Num(n) == [t |-> "number", v |-> n]
DateV(d) == [t |-> "Date", v |-> d]
Obj(o) == [t |-> "object", v |-> o]
Arr(a) == [t |-> "array", v |-> a]
Thrown(e) == [t |-> "throw", v |-> e]

IsThrown(x) == x.t = "throw"

\* a ?? b
Nullish(x) == x.t \in {"undefined", "null"}
Coalesce(a, b) == IF Nullish(a) THEN b ELSE a

\* ToBoolean
Truthy(x) ==
    CASE x.t \in {"undefined", "null"} -> FALSE
      [] x.t = "boolean" -> x.v
      [] x.t = "number" -> x.v # 0
      [] x.t = "string" -> x.v # ""
      [] OTHER -> TRUE

EmptyObj == [k \in {} |-> Undefined]

\* o.k / o[k]: undefined when the key is absent
Get(o, k) == IF k \in DOMAIN o THEN o[k] ELSE Undefined

\* "k" in o, for a plain object
Has(o, k) == k \in DOMAIN o

\* a merge that keeps the earlier value of a key both objects have
SpreadFirstWins(a, b) ==
    [k \in DOMAIN a \cup DOMAIN b |-> IF k \in DOMAIN a THEN a[k] ELSE b[k]]

\* a merge that drops the keys of the earlier object
SpreadLastOnly(a, b) == b

\* { ...a, ...b }
Spread(a, b) ==
    [k \in DOMAIN a \cup DOMAIN b |-> IF k \in DOMAIN b THEN b[k] ELSE a[k]]

-----------------------------------------------------------------------------
(* Dates *)

Iso2024 == "2024-01-01T00:00:00Z"
Iso2099 == "2099-01-01T00:00:00Z"

\* the time value of an Invalid Date (NaN)
InvalidTime == 0 - 1

\* new Date(string): Date.parse, NaN for an unparsable string
ParseDate(s) ==
    CASE s = Iso2024 -> 19723
      [] s = Iso2099 -> 47117
      [] OTHER -> InvalidTime

\* new Date(value) for a non-Date value
NewDate(value) ==
    CASE value.t = "string" -> DateV(ParseDate(value.v))
      [] value.t = "number" -> DateV(value.v)
      [] value.t = "null" -> DateV(0)
      [] value.t = "boolean" -> DateV(IF value.v THEN 1 ELSE 0)
      [] OTHER -> DateV(InvalidTime)

\* a conversion that reads the clock whatever the input
ToDateAlwaysNow(value, t) == DateV(t)

\* a conversion that fails on input it cannot parse
ToDateStrict(value, t) ==
    IF value = Undefined THEN DateV(t)
    ELSE IF value.t = "Date" THEN value
    ELSE IF NewDate(value).v = InvalidTime THEN Thrown("RangeError")
    ELSE NewDate(value)

\* toDate(value), evaluated when the clock reads t
ToDate(value, t) ==
    IF value = Undefined THEN DateV(t)
    ELSE IF value.t = "Date" THEN value
    ELSE NewDate(value)

-----------------------------------------------------------------------------
(* SelectorOrValue *)

Lit(x) == [fn |-> FALSE, name |-> "", v |-> x]
Sel(n) == [fn |-> TRUE, name |-> n, v |-> Undefined]
NotSet == Lit(Undefined)

\* the selector functions that configurations use
ApplySelector(name, source) ==
    CASE name = "s.id" -> Get(source, "id")
      [] name = "true" -> Bool(TRUE)
      [] name = "s.publishedAt" -> Get(source, "publishedAt")
      [] name = "s.comments" -> Get(source, "comments")
      [] name = "s.lead" -> Get(source, "lead")
      [] name = "throws" -> Thrown("SelectorError")
      [] OTHER -> Undefined

\* a resolution that hands every configuration value back as it is
ResolveAsLiteral(source, selectorOrValue) == selectorOrValue.v

\* resolveSelector(source, selectorOrValue) of the function realization
ResolveSelector(source, selectorOrValue) ==
    IF selectorOrValue.fn
    THEN ApplySelector(selectorOrValue.name, source)
    ELSE selectorOrValue.v

\* resolveSelector(source, selectorOrValue) of the class realization
ResolveSelectorOfClass(source, selectorOrValue) ==
    IF selectorOrValue.fn
    THEN ApplySelector(selectorOrValue.name, source)
    ELSE selectorOrValue.v

\* the arguments of the calls that resolveSelector makes
SelectorCalls(source, selectorOrValue) ==
    IF selectorOrValue.fn THEN <<source>> ELSE << >>

\* configuration values: literals and selector functions
SelectorNames ==
    {"s.id", "true", "s.publishedAt", "s.comments", "s.lead", "throws"}
SelectorOrValues ==
    {Lit(x) : x \in {Str("task"), Str(""), Bool(FALSE), Num(0), Null,
                     Undefined, DateV(19000)}}
    \cup {Sel(n) : n \in SelectorNames}

-----------------------------------------------------------------------------
(* Enhancers.  An enhancer call yields an outcome: the partial it returned *)
(* (or a falsy value), or the error it raised; `source` is the source      *)
(* record as the call left it; `now` lists the paths into the partial at   *)
(* which the value is a `new Date()` default; `calls` counts the calls of   *)
(* a relation's transform.                                                 *)

Returns(partial, source) ==
    [threw |-> FALSE, err |-> "", falsy |-> FALSE, out |-> partial,
     source |-> source, now |-> {}, calls |-> 0]
ReturnsFalsy(source) ==
    [threw |-> FALSE, err |-> "", falsy |-> TRUE, out |-> EmptyObj,
     source |-> source, now |-> {}, calls |-> 0]
Raises(e, source) ==
    [threw |-> TRUE, err |-> e, falsy |-> FALSE, out |-> EmptyObj,
     source |-> source, now |-> {}, calls |-> 0]

\* the first raised value among the values an enhancer resolved, in
\* evaluation order, else Undefined
RECURSIVE FirstThrown(_)
FirstThrown(xs) ==
    IF xs = << >> THEN Undefined
    ELSE IF IsThrown(Head(xs)) THEN Head(xs)
    ELSE FirstThrown(Tail(xs))

\* WatchableOptions used by the pipelines
WatchableOpts(cfg) ==
    CASE cfg = "task" ->
           [watcherType |-> Lit(Str("task")), watcherId |-> Sel("s.id"),
            isWatched |-> NotSet]
      [] cfg = "post" ->
           [watcherType |-> Lit(Str("post")), watcherId |-> Lit(Str("p9")),
            isWatched |-> NotSet]
      [] cfg = "forceOn" ->
           [watcherType |-> Lit(Str("task")), watcherId |-> Sel("s.id"),
            isWatched |-> Sel("true")]
      [] cfg = "litOff" ->
           [watcherType |-> Lit(Str("task")), watcherId |-> Sel("s.id"),
            isWatched |-> Lit(Bool(FALSE))]
      [] OTHER ->
           [watcherType |-> Lit(Str("task")), watcherId |-> Sel("throws"),
            isWatched |-> NotSet]

WatchableCfgs == {"task", "post", "forceOn", "litOff", "badSel"}

\* an isWatched that prefers the source to the accumulator
WatchedSourceFirst(opts, source, acc) ==
    IF opts.isWatched # NotSet
    THEN ResolveSelector(source, opts.isWatched)
    ELSE Coalesce(Get(source, "isWatched"),
                  Coalesce(Get(acc, "isWatched"), Bool(FALSE)))

\* the isWatched expression of withWatchable
WatchedOf(opts, source, acc) ==
    IF opts.isWatched # NotSet
    THEN ResolveSelector(source, opts.isWatched)
    ELSE Coalesce(Get(acc, "isWatched"),
                  Coalesce(Get(source, "isWatched"), Bool(FALSE)))

\* a withWatchable that stores the resolved isWatched on the source
WithWatchableWrites(opts, source, acc) ==
    LET isWatched == WatchedOf(opts, source, acc)
    IN  Returns("isWatched" :> isWatched
                @@ "watcherType" :> ResolveSelector(source, opts.watcherType)
                @@ "watcherId" :> ResolveSelector(source, opts.watcherId),
                Spread(source, "isWatched" :> isWatched))

\* withWatchable(opts)(source, acc)
WithWatchable(opts, source, acc) ==
    LET watcherType == ResolveSelector(source, opts.watcherType)
        watcherId == ResolveSelector(source, opts.watcherId)
        isWatched == WatchedOf(opts, source, acc)
        bad == FirstThrown(<<watcherType, watcherId, isWatched>>)
    IN  IF IsThrown(bad) THEN Raises(bad.v, source)
        ELSE Returns("isWatched" :> isWatched
                     @@ "watcherType" :> watcherType
                     @@ "watcherId" :> watcherId, source)

\* TimestampsOptions used by the pipelines
TimestampsOpts(cfg) ==
    CASE cfg = "published" ->
           [createdAt |-> Sel("s.publishedAt"), updatedAt |-> NotSet]
      [] cfg = "fixed" ->
           [createdAt |-> Lit(Str(Iso2099)), updatedAt |-> Lit(Num(19000))]
      [] cfg = "republished" ->
           [createdAt |-> NotSet, updatedAt |-> Sel("s.publishedAt")]
      [] OTHER -> [createdAt |-> NotSet, updatedAt |-> NotSet]

TimestampsCfgs == {"default", "published", "fixed"}

\* a createdAt input that prefers the snake_case field
CreatedAtSnakeFirst(opts, source) ==
    IF opts.createdAt # NotSet
    THEN ResolveSelector(source, opts.createdAt)
    ELSE Coalesce(Get(source, "created_at"), Get(source, "createdAt"))

\* an override that gives way to the source's fields when it resolves to
\* undefined
CreatedAtOverrideOrSource(opts, source) ==
    Coalesce(ResolveSelector(source, opts.createdAt),
             Coalesce(Get(source, "createdAt"), Get(source, "created_at")))

\* the value withTimestamps hands to toDate for createdAt / updatedAt
CreatedAtValue(opts, source) ==
    IF opts.createdAt # NotSet
    THEN ResolveSelector(source, opts.createdAt)
    ELSE Coalesce(Get(source, "createdAt"), Get(source, "created_at"))

UpdatedAtValue(opts, source) ==
    IF opts.updatedAt # NotSet
    THEN ResolveSelector(source, opts.updatedAt)
    ELSE Coalesce(Get(source, "updatedAt"), Get(source, "updated_at"))

\* withTimestamps(opts)(source), called when the clock reads t
WithTimestamps(opts, source, t) ==
    LET createdAtValue == CreatedAtValue(opts, source)
        updatedAtValue == UpdatedAtValue(opts, source)
        bad == FirstThrown(<<createdAtValue, updatedAtValue>>)
    IN  IF IsThrown(bad) THEN Raises(bad.v, source)
        ELSE [Returns("createdAt" :> ToDate(createdAtValue, t)
                      @@ "updatedAt" :> ToDate(updatedAtValue, t), source)
              EXCEPT !.now =
                  {p \in {<<"createdAt">>} : createdAtValue = Undefined}
                  \cup {p \in {<<"updatedAt">>} : updatedAtValue = Undefined}]

\* a soft delete that takes every raw value but null and undefined as a date
WithSoftDeleteNullish(source, t) ==
    LET rawDeletedAt == Coalesce(Get(source, "deletedAt"),
                                 Get(source, "deleted_at"))
        deletedAt == IF Nullish(rawDeletedAt) THEN Null
                     ELSE ToDate(rawDeletedAt, t)
    IN  Returns("deletedAt" :> deletedAt
                @@ "isDeleted" :> Bool(deletedAt # Null), source)

\* withSoftDelete()(source)
WithSoftDelete(source, t) ==
    LET rawDeletedAt == Coalesce(Get(source, "deletedAt"),
                                 Get(source, "deleted_at"))
        deletedAt == IF Truthy(rawDeletedAt) THEN ToDate(rawDeletedAt, t)
                     ELSE Null
    IN  Returns("deletedAt" :> deletedAt
                @@ "isDeleted" :> Bool(deletedAt # Null), source)

\* AuthorOptions used by the pipelines
NoAuthorOpts ==
    [author |-> NotSet, authorId |-> NotSet, authorName |-> NotSet,
     avatarUrl |-> NotSet]

RootAuthor ==
    Obj("id" :> Str("u0") @@ "name" :> Str("Root") @@ "avatarUrl" :> Undefined)

AuthorOpts(cfg) ==
    CASE cfg = "named" -> [NoAuthorOpts EXCEPT !.authorName = Lit(Str("Staff"))]
      [] cfg = "whole" -> [NoAuthorOpts EXCEPT !.author = Lit(RootAuthor)]
      [] cfg = "wholeAndId" ->
           [NoAuthorOpts EXCEPT !.author = Lit(RootAuthor),
                                !.authorId = Lit(Str("x9")),
                                !.authorName = Lit(Str("Staff"))]
      [] cfg = "idLit" -> [NoAuthorOpts EXCEPT !.authorId = Lit(Str("x9"))]
      [] cfg = "idSel" -> [NoAuthorOpts EXCEPT !.authorId = Sel("s.id")]
      [] cfg = "avatarLit" ->
           [NoAuthorOpts EXCEPT !.avatarUrl = Lit(Str("x.png"))]
      [] cfg = "avatarEmpty" -> [NoAuthorOpts EXCEPT !.avatarUrl = Lit(Str(""))]
      [] cfg = "badName" -> [NoAuthorOpts EXCEPT !.authorName = Sel("throws")]
      [] OTHER -> NoAuthorOpts

AuthorCfgs ==
    {"default", "named", "whole", "wholeAndId", "idLit", "idSel", "avatarLit",
     "avatarEmpty", "badName"}

\* x.k for any value x: undefined unless x is an object that has the key
Prop(x, k) == IF x.t = "object" THEN Get(x.v, k) ELSE Undefined

\* { id, name, avatarUrl }, or the error raised while resolving a field
AuthorInfo(id, name, avatarUrl) ==
    LET bad == FirstThrown(<<id, name, avatarUrl>>)
    IN  IF IsThrown(bad) THEN bad
        ELSE Obj("id" :> id @@ "name" :> name @@ "avatarUrl" :> avatarUrl)

\* an author object taken from `user` before `author`
AuthorObjUserFirst(source) ==
    Coalesce(Get(source, "user"), Get(source, "author"))

\* const authorObj = source.author ?? source.user
AuthorObjOf(source) == Coalesce(Get(source, "author"), Get(source, "user"))

\* a name that prefers username to displayName and name
NameUsernameFirst(authorObj) ==
    Coalesce(Prop(authorObj, "username"),
    Coalesce(Prop(authorObj, "displayName"),
    Coalesce(Prop(authorObj, "name"), Str("Unknown"))))

\* authorObj.displayName ?? authorObj.name ?? authorObj.username ?? "Unknown"
NameOf(authorObj) ==
    Coalesce(Prop(authorObj, "displayName"),
    Coalesce(Prop(authorObj, "name"),
    Coalesce(Prop(authorObj, "username"), Str("Unknown"))))

\* authorObj.avatarUrl ?? authorObj.avatar_url ?? authorObj.avatar
AvatarOf(authorObj) ==
    Coalesce(Prop(authorObj, "avatarUrl"),
    Coalesce(Prop(authorObj, "avatar_url"), Prop(authorObj, "avatar")))

\* a scalar id that prefers the user ids to the author ids
ScalarIdUserFirst(source) ==
    Coalesce(Get(source, "userId"),
    Coalesce(Get(source, "user_id"),
    Coalesce(Get(source, "authorId"),
    Coalesce(Get(source, "author_id"), Str("unknown")))))

\* source.authorId ?? source.author_id ?? source.userId ?? source.user_id
\*     ?? "unknown"
ScalarIdOf(source) ==
    Coalesce(Get(source, "authorId"),
    Coalesce(Get(source, "author_id"),
    Coalesce(Get(source, "userId"),
    Coalesce(Get(source, "user_id"), Str("unknown")))))

\* extractAuthor(source, opts)
ExtractAuthor(source, opts) ==
    IF opts.author # NotSet THEN ResolveSelector(source, opts.author)
    ELSE LET authorObj == AuthorObjOf(source)
         IN  IF Truthy(authorObj)
             THEN AuthorInfo(
                    Prop(authorObj, "id"),
                    IF opts.authorName # NotSet
                    THEN ResolveSelector(source, opts.authorName)
                    ELSE NameOf(authorObj),
                    IF opts.avatarUrl # NotSet
                    THEN ResolveSelector(source, opts.avatarUrl)
                    ELSE AvatarOf(authorObj))
             ELSE AuthorInfo(
                    IF opts.authorId # NotSet
                    THEN ResolveSelector(source, opts.authorId)
                    ELSE ScalarIdOf(source),
                    IF opts.authorName # NotSet
                    THEN ResolveSelector(source, opts.authorName)
                    ELSE Str("Unknown"),
                    IF opts.avatarUrl.fn \/ Truthy(opts.avatarUrl.v)
                    THEN ResolveSelector(source, opts.avatarUrl)
                    ELSE Undefined)

\* withAuthor(opts)(source)
WithAuthor(opts, source) ==
    LET author == ExtractAuthor(source, opts)
    IN  IF IsThrown(author) THEN Raises(author.v, source)
        ELSE Returns("author" :> author, source)

\* a body longer than the 140 characters taskBase keeps, and its cut
LongBody == "a body of more than 140 characters"
LongBodyCut == "the first 140 characters..."

\* taskBase(source); the getters are read when the partial is spread, and
\* source.body.length raises a TypeError when body is missing
TaskBase(source) ==
    LET body == Get(source, "body")
    IN  IF Nullish(body) THEN Raises("TypeError", source)
        ELSE Returns(
               "id" :> Get(source, "id")
               @@ "title" :> Get(source, "title")
               @@ "body" :> body
               @@ "status" :> Get(source, "status")
               @@ "priority" :> Coalesce(Get(source, "priority"), Str("medium"))
               @@ "tags" :> Coalesce(Get(source, "tags"), Arr(<< >>))
               @@ "summary" :>
                    (IF body = Str(LongBody) THEN Str(LongBodyCut) ELSE body)
               @@ "isCompleted" :> Bool(Get(source, "status") = Str("done"))
               @@ "isHighPriority" :>
                    Bool(Get(source, "priority") = Str("high")),
               source)

\* commentBase(source)
CommentBase(source) ==
    LET body == Get(source, "body")
    IN  IF Nullish(body) THEN Raises("TypeError", source)
        ELSE Returns("id" :> Get(source, "id")
                     @@ "body" :> body
                     @@ "preview" :> body, source)

\* enhancers written with makeEnhancer that return a fixed partial
EmitOut(cfg) ==
    CASE cfg = "a1" -> "a" :> Str("1")
      [] cfg = "a2b2" -> "a" :> Str("2") @@ "b" :> Str("2")
      [] cfg = "watchedOn" -> "isWatched" :> Bool(TRUE)
      [] cfg = "author" -> "author" :> Str("anon")
      [] OTHER -> "isWatched" :> Bool(FALSE)

EmitCfgs == {"a1", "a2b2", "watchedOn", "watchedOff"}

\* (source, acc) => ({ seen: acc.a })
ReadAcc(source, acc) == Returns("seen" :> Get(acc, "a"), source)

\* the overrides the nesting enhancer passes to build()
NestOverrides == "nestedAt" :> Str("child") @@ "a" :> Str("over")

\* (source, acc, build) =>
\*     "nestedAt" in acc
\*         ? {} : { child: build({ nestedAt: "child", a: "over" }) }
CallsBuild(unit, acc) == unit.kind = "nested" /\ ~Has(acc, "nestedAt")

\* what the nesting enhancer returns once build() has returned `view`
AfterBuild(view, source) == Returns("child" :> Obj(view), source)

Unit(kind, cfg) == [kind |-> kind, cfg |-> cfg]

\* enhancers written with makeEnhancer, and withWatchable
EngineUnits ==
    {Unit("withWatchable", c) : c \in WatchableCfgs \ {"post"}}
    \cup {Unit("emit", c) : c \in EmitCfgs}
    \cup {Unit(k, "") : k \in {"readAcc", "falsy", "throws", "nested"}}

\* the behaviours and relations of the library
BehaviorUnits ==
    {Unit("withTimestamps", c) : c \in TimestampsCfgs}
    \cup {Unit(k, "") : k \in {"taskBase", "withSoftDelete", "withComments",
                               "withLead"}}
    \cup {Unit("withAuthor", "default")}

\* enhancer lists in which a behaviour runs inside and around a nested build
NestedPipelines ==
    { <<Unit("nested", ""), Unit("withTimestamps", "default")>>,
      <<Unit("withTimestamps", "default"), Unit("nested", "")>>,
      <<Unit("withComments", ""), Unit("nested", "")>> }

\* Array.prototype.map(transform) over outcomes of the transform: the views,
\* or the first error raised
RECURSIVE MapViews(_)
MapViews(outs) ==
    IF outs = << >> THEN [threw |-> FALSE, err |-> "", views |-> << >>]
    ELSE IF Head(outs).threw
         THEN [threw |-> TRUE, err |-> Head(outs).err, views |-> << >>]
         ELSE LET rest == MapViews(Tail(outs))
              IN  IF rest.threw THEN rest
                  ELSE [rest EXCEPT !.views = <<Obj(Head(outs).view)>> \o @]

\* let acc = { ...overrides }
InitialAcc(overrides) == Spread(EmptyObj, overrides)

\* the paths of default dates after merging a partial that holds them at
\* the paths `fresh`
Redefault(dflt, partial, fresh) ==
    {p \in dflt : p[1] \notin DOMAIN partial} \cup fresh

\* partial || {}
OrEmpty(outcome) == IF outcome.falsy THEN EmptyObj ELSE outcome.out

\* build() of composeModel over enhancers that read the source only, given
\* the outcomes of their calls: the loop from the i-th on
RECURSIVE BuildOver(_, _, _, _)
BuildOver(outs, i, acc, dflt) ==
    IF i > Len(outs)
    THEN [threw |-> FALSE, err |-> "", view |-> acc, dflt |-> dflt]
    ELSE IF outs[i].threw
    THEN [threw |-> TRUE, err |-> outs[i].err, view |-> EmptyObj, dflt |-> {}]
    ELSE BuildOver(outs, i + 1, Spread(acc, OrEmpty(outs[i])),
                   Redefault(dflt, OrEmpty(outs[i]), outs[i].now))

\* createComment(data):
\* composeModel(data, [commentBase, withAuthor(), withTimestamps()])
CreateComment(raw, t) ==
    IF raw.t # "object"
    THEN [threw |-> TRUE, err |-> "TypeError", view |-> EmptyObj, dflt |-> {}]
    ELSE BuildOver(<<CommentBase(raw.v),
                     WithAuthor(AuthorOpts("default"), raw.v),
                     WithTimestamps(TimestampsOpts("default"), raw.v, t)>>,
                   1, InitialAcc(EmptyObj), {})

\* withHasMany({ key, from, transform })(source)
WithHasMany(key, from, source, t) ==
    LET raw == ResolveSelector(source, from)
    IN  IF IsThrown(raw) THEN Raises(raw.v, source)
        ELSE IF ~Truthy(raw) THEN Returns(key :> Arr(<< >>), source)
        ELSE IF raw.t # "array" THEN Raises("TypeError", source)
        ELSE LET outs == [i \in 1..Len(raw.v) |-> CreateComment(raw.v[i], t)]
                 m == MapViews(outs)
             IN  IF m.threw THEN Raises(m.err, source)
                 ELSE [Returns(key :> Arr(m.views), source)
                       EXCEPT !.now =
                          UNION {{<<key, ToString(i)>> \o p : p \in outs[i].dflt}
                                 : i \in 1..Len(outs)},
                              !.calls = Len(outs)]

\* withHasOne({ key, from, transform })(source)
WithHasOne(key, from, source, t) ==
    LET raw == ResolveSelector(source, from)
    IN  IF IsThrown(raw) THEN Raises(raw.v, source)
        ELSE IF ~Truthy(raw) THEN Returns(key :> Null, source)
        ELSE LET m == CreateComment(raw, t)
             IN  IF m.threw THEN Raises(m.err, source)
                 ELSE [Returns(key :> Obj(m.view), source)
                       EXCEPT !.now = {<<key>> \o p : p \in m.dflt},
                              !.calls = 1]

\* enhancer(source, acc, build) for an enhancer that does not call build
Enhance(unit, source, acc, t) ==
    CASE unit.kind = "withWatchable" ->
           WithWatchable(WatchableOpts(unit.cfg), source, acc)
      [] unit.kind = "withTimestamps" ->
           WithTimestamps(TimestampsOpts(unit.cfg), source, t)
      [] unit.kind = "withSoftDelete" -> WithSoftDelete(source, t)
      [] unit.kind = "withAuthor" -> WithAuthor(AuthorOpts(unit.cfg), source)
      [] unit.kind = "taskBase" -> TaskBase(source)
      [] unit.kind = "commentBase" -> CommentBase(source)
      [] unit.kind = "emit" -> Returns(EmitOut(unit.cfg), source)
      [] unit.kind = "readAcc" -> ReadAcc(source, acc)
      [] unit.kind = "falsy" -> ReturnsFalsy(source)
      [] unit.kind = "throws" -> Raises("UnitError", source)
      [] unit.kind = "withComments" ->
           WithHasMany("comments", Sel("s.comments"), source, t)
      [] unit.kind = "withLead" ->
           WithHasOne("lead", Sel("s.lead"), source, t)
      [] OTHER -> Returns(EmptyObj, source)

RECURSIVE BuildFrom(_, _, _, _, _, _)

\* build(overrides) of composeModel run to its end with the clock at t: the
\* loop from enhancer i on, with accumulator acc; dflt lists the paths of
\* acc that hold a `new Date()` default
BuildFrom(source, enhancers, i, acc, dflt, t) ==
    IF i > Len(enhancers)
    THEN [threw |-> FALSE, err |-> "", view |-> acc, dflt |-> dflt]
    ELSE IF CallsBuild(enhancers[i], acc)
    THEN LET inner == BuildFrom(source, enhancers, 1,
                                Spread(acc, NestOverrides), dflt, t)
             o == AfterBuild(inner.view, source)
         IN  IF inner.threw THEN inner
             ELSE BuildFrom(source, enhancers, i + 1, Spread(acc, o.out),
                            Redefault(dflt, o.out,
                                      {<<"child">> \o p : p \in inner.dflt}),
                            t)
    ELSE LET o == Enhance(enhancers[i], source, acc, t)
         IN  IF o.threw
             THEN [threw |-> TRUE, err |-> o.err, view |-> EmptyObj,
                   dflt |-> {}]
             ELSE BuildFrom(source, enhancers, i + 1,
                            Spread(acc, OrEmpty(o)),
                            Redefault(dflt, OrEmpty(o), o.now), t)

\* composeModel(source, enhancers)
ComposeModel(source, enhancers, t) ==
    BuildFrom(source, enhancers, 1, EmptyObj, {}, t)

-----------------------------------------------------------------------------
(* Inputs *)

Comment1 ==
    Obj("id" :> Str("c1") @@ "body" :> Str("hi")
        @@ "author" :> Obj("id" :> Str("u1") @@ "name" :> Str("Ann")))
Comment2 ==
    Obj("id" :> Str("c2") @@ "body" :> Str("yo") @@ "user_id" :> Str("u2")
        @@ "created_at" :> Str(Iso2024))

\* source records as the API returns them
Sources ==
    { "id" :> Str("t1") @@ "title" :> Str("Write") @@ "body" :> Str("short")
        @@ "status" :> Str("todo") @@ "isWatched" :> Bool(TRUE)
        @@ "createdAt" :> Str(Iso2024) @@ "created_at" :> Str(Iso2099)
        @@ "comments" :> Arr(<<Comment1, Comment2>>)
        @@ "user" :> Obj("id" :> Str("u7") @@ "username" :> Str("bo")
                         @@ "avatar" :> Str("bo.png")),
      "id" :> Str("t2") @@ "title" :> Str("Ship") @@ "body" :> Str(LongBody)
        @@ "status" :> Str("done") @@ "priority" :> Str("high")
        @@ "isWatched" :> Bool(FALSE) @@ "updated_at" :> Num(19000)
        @@ "deletedAt" :> Str(Iso2024) @@ "lead" :> Comment1
        @@ "author_id" :> Str("u8"),
      "id" :> Str("t3") @@ "title" :> Str("Plan") @@ "body" :> Str("short")
        @@ "status" :> Str("in_progress") @@ "createdAt" :> Str("garbage")
        @@ "updatedAt" :> DateV(19000) @@ "publishedAt" :> Str(Iso2024)
        @@ "comments" :> Null @@ "lead" :> Null,
      "id" :> Str("c9") }

\* source records for one mapper at a time: the shapes of author data,
\* of timestamps and of embedded records
MapperSources ==
    { "id" :> Str("m1")
        @@ "author" :> Obj("id" :> Str("u1") @@ "username" :> Str("bob"))
        @@ "lead" :> Bool(FALSE) @@ "comments" :> Arr(<< >>)
        @@ "deletedAt" :> Null @@ "deleted_at" :> Str(Iso2024),
      "id" :> Str("m2")
        @@ "author" :> Obj("id" :> Str("u1") @@ "name" :> Str("Ann")
                           @@ "displayName" :> Str("A.")
                           @@ "username" :> Str("ann")
                           @@ "avatar_url" :> Str("a.png")
                           @@ "avatar" :> Str("b.png"))
        @@ "user" :> Obj("id" :> Str("u2") @@ "name" :> Str("Uma")
                         @@ "avatarUrl" :> Str("u.png"))
        @@ "authorId" :> Str("u5")
        @@ "lead" :> Num(0) @@ "comments" :> Comment1
        @@ "deletedAt" :> Num(0) @@ "deleted_at" :> Num(19000),
      "id" :> Str("m3")
        @@ "user" :> Obj("id" :> Str("u2") @@ "name" :> Str("Uma")
                         @@ "username" :> Str("uma")
                         @@ "avatar" :> Str("u.png"))
        @@ "author_id" :> Str("u3")
        @@ "lead" :> Str("") @@ "comments" :> Str("text")
        @@ "deleted_at" :> Num(19000),
      "id" :> Str("m4")
        @@ "author_id" :> Str("u3") @@ "userId" :> Str("u4")
        @@ "user_id" :> Str("u6")
        @@ "createdAt" :> DateV(19000) @@ "updatedAt" :> Str(Iso2024)
        @@ "updated_at" :> Num(19000)
        @@ "lead" :> Comment2 @@ "comments" :> Arr(<<Comment2>>)
        @@ "deletedAt" :> Str(""),
      "id" :> Str("m5")
        @@ "authorId" :> Str("u5") @@ "author_id" :> Str("u3")
        @@ "user_id" :> Str("u6")
        @@ "created_at" :> Num(19000) @@ "updated_at" :> Str("garbage")
        @@ "comments" :> Num(0)
        @@ "deletedAt" :> DateV(19000) @@ "deleted_at" :> Str(Iso2099),
      "id" :> Str("m6")
        @@ "author" :> Null
        @@ "user" :> Obj("id" :> Str("u2"))
        @@ "user_id" :> Str("u6")
        @@ "comments" :> Arr(<<Comment1, Str("text")>>)
        @@ "deletedAt" :> Str("garbage"),
      "id" :> Str("m7")
        @@ "userId" :> Str("u4") @@ "user_id" :> Str("u6") }

\* the mappers applied one at a time
MapperUnits ==
    {Unit("withAuthor", c) : c \in AuthorCfgs}
    \cup {Unit("withTimestamps", c) : c \in TimestampsCfgs}
    \cup {Unit("withTimestamps", "republished")}
    \cup {Unit(k, "") : k \in {"withComments", "withLead", "withSoftDelete"}}
    \cup {Unit("withWatchable", "task")}

Derivs == {"A", "B"}

\* every enhancer list of at most MaxLen enhancers
Pipelines(units) == UNION {[1..n -> units] : n \in 0..MaxLen}

\* the source records used where two derivations run side by side
PairSources == {s \in Sources : s["id"] \in {Str("t1"), Str("c9")}}

\* the enhancer lists used where two derivations run side by side
PairPipelines ==
    { <<Unit("taskBase", ""), Unit("withWatchable", "task")>>,
      <<Unit("emit", "a1"), Unit("readAcc", "")>>,
      <<Unit("emit", "watchedOff"), Unit("withWatchable", "task")>>,
      <<Unit("emit", "a2b2"), Unit("nested", ""),
        Unit("withWatchable", "task")>>,
      <<Unit("emit", "a2b2"), Unit("throws", ""), Unit("emit", "a1")>> }

\* the enhancer lists of createTask, createTimestampedTask,
\* watchableTaskFactory and a watchable, timestamped task
ViewPipelines ==
    { <<Unit("taskBase", "")>>,
      <<Unit("taskBase", ""), Unit("withTimestamps", "default")>>,
      <<Unit("taskBase", ""), Unit("withWatchable", "task")>>,
      <<Unit("taskBase", ""), Unit("withWatchable", "task"),
        Unit("withTimestamps", "default")>>,
      <<Unit("taskBase", ""), Unit("withAuthor", "default")>>,
      <<Unit("taskBase", ""), Unit("emit", "author")>> }

NoView == EmptyObj
Unbound == [set |-> FALSE, enhancers |-> << >>]
NoInst == [made |-> FALSE, source |-> EmptyObj, class |-> << >>,
           authorCache |-> Undefined, cachedBy |-> 0, extracted |-> 0,
           authorReads |-> << >>]
NoProbe == [key |-> "", n |-> 0, first |-> Undefined, last |-> Undefined]
NoCall == [made |-> FALSE, source |-> EmptyObj, selectorOrValue |-> NotSet,
           result |-> Undefined, called |-> << >>, resultOfClass |-> Undefined,
           calledOfClass |-> << >>]
NoAsk == [made |-> FALSE, arg |-> Undefined, answer |-> Undefined,
          watchableFn |-> Undefined, watchableClass |-> Undefined]
NoToggle ==
    [mounted |-> FALSE, isWatched |-> Undefined, sets |-> 0, args |-> << >>]

Modes ==
    {"engine", "behaviors", "pair", "view", "combine", "class", "mapper",
     "authored", "selector"}

Init ==
    /\ mode \in Modes
    /\ now = 20000
    /\ src = [d \in Derivs |-> EmptyObj]
    /\ given = [d \in Derivs |-> EmptyObj]
    /\ pipe = [d \in Derivs |-> << >>]
    /\ status = [d \in Derivs |-> "idle"]
    /\ stack = [d \in Derivs |-> << >>]
    /\ result = [d \in Derivs |-> NoView]
    /\ error = [d \in Derivs |-> ""]
    /\ log = [d \in Derivs |-> << >>]
    /\ seeds = [d \in Derivs |-> << >>]
    /\ defaulted = [d \in Derivs |-> {}]
    /\ bound = Unbound
    /\ viaFactory = [d \in Derivs |-> FALSE]
    /\ mapped = << >>
    /\ inst = NoInst
    /\ probe = NoProbe
    /\ toggle = NoToggle
    /\ notes = << >>
    /\ asked = NoAsk
    /\ twin = NoInst
    /\ resolved = NoCall

consumerVars == <<inst, probe, toggle, notes, asked, twin, resolved>>

\* the clock advances between any two steps
Tick ==
    /\ mode \in {"behaviors", "view", "class", "mapper"}
    /\ now < 20000 + MaxTicks
    /\ now' = now + 1
    /\ UNCHANGED <<mode, src, given, pipe, status, stack, result, error, log,
                   seeds, defaulted, bound, viaFactory, mapped>>
    /\ UNCHANGED consumerVars

-----------------------------------------------------------------------------
(* composeModel as a machine: one step per enhancer invocation *)

\* a seed in which the accumulator wins over the overrides passed to build()
OverridesLose(acc, moreOverrides) == Spread(moreOverrides, acc)

\* buildRecursive: build({ ...acc, ...moreOverrides })
RecursiveOverrides(acc, moreOverrides) == Spread(acc, moreOverrides)

Frame(acc, build, dflt) ==
    [acc |-> acc, i |-> 1, build |-> build, entry |-> 0, dflt |-> dflt]

Top(d) == stack[d][Len(stack[d])]

\* an accumulator shared with the other derivation under way
AccOfOther(d) ==
    IF \E e \in Derivs \ {d} : stack[e] # << >>
    THEN Top(CHOOSE e \in Derivs \ {d} : stack[e] # << >>).acc
    ELSE Top(d).acc

\* an accumulator that stays at the seed of the build
AccOfSeed(d) == seeds[d][Top(d).build]

\* the accumulator handed to the enhancer that derivation d invokes next
AccSeen(d) == Top(d).acc

\* the enhancers the loop of build() iterates over
Enhancers(d) == pipe[d]

\* overrides left over from the view of an earlier call
LastViewReturned ==
    IF \E e \in Derivs : status[e] = "returned"
    THEN result[CHOOSE e \in Derivs : status[e] = "returned"]
    ELSE EmptyObj

\* return build(): the overrides of the outermost build
TopLevelOverrides == EmptyObj

\* composeModel(s, E): the call, up to the first enhancer invocation
Call(d, s, E, factory) ==
    /\ status[d] = "idle"
    /\ src' = [src EXCEPT ![d] = s]
    /\ given' = [given EXCEPT ![d] = s]
    /\ pipe' = [pipe EXCEPT ![d] = E]
    /\ status' = [status EXCEPT ![d] = "running"]
    /\ stack' = [stack EXCEPT ![d] =
                     <<Frame(InitialAcc(TopLevelOverrides), 1, {})>>]
    /\ seeds' = [seeds EXCEPT ![d] = <<TopLevelOverrides>>]
    /\ viaFactory' = [viaFactory EXCEPT ![d] = factory]
    /\ UNCHANGED <<mode, now, result, error, log, defaulted, bound, mapped>>
    /\ UNCHANGED consumerVars

\* an ad hoc composeModel(s, E)
Derive ==
    /\ mode \in {"engine", "behaviors", "view", "mapper"}
    /\ status["A"] = "idle"
    /\ \E s \in (IF mode = "mapper" THEN Sources \cup MapperSources
                 ELSE Sources) :
         \E E \in (CASE mode = "engine" -> Pipelines(EngineUnits)
                     [] mode = "behaviors" ->
                          Pipelines(BehaviorUnits) \cup NestedPipelines
                     [] mode = "mapper" -> {<<u>> : u \in MapperUnits}
                     [] OTHER -> ViewPipelines) :
            Call("A", s, E, FALSE)

\* a second composeModel call on an equal source with the same enhancers
DeriveAgain ==
    /\ mode \in {"engine", "behaviors"}
    /\ status["A"] \in {"returned", "raised"}
    /\ Call("B", given["A"], pipe["A"], FALSE)

\* ad hoc calls that may overlap
DerivePair ==
    /\ mode = "pair"
    /\ \E d \in Derivs :
          /\ status[d] = "idle"
          /\ \E s \in PairSources : \E E \in PairPipelines :
                Call(d, s, E, FALSE)

\* createModelFactory()(E)
Bind ==
    /\ mode = "pair"
    /\ ~bound.set
    /\ \E E \in PairPipelines : bound' = [set |-> TRUE, enhancers |-> E]
    /\ UNCHANGED <<mode, now, src, given, pipe, status, stack, result, error,
                   log, seeds, defaulted, viaFactory, mapped>>
    /\ UNCHANGED consumerVars

\* the enhancer list the bound factory passes to composeModel
FactoryEnhancers == bound.enhancers

\* the bound factory called on a source
FactoryCall ==
    /\ mode = "pair"
    /\ bound.set
    /\ \E d \in Derivs :
          /\ status[d] = "idle"
          /\ \E s \in PairSources : Call(d, s, FactoryEnhancers, TRUE)

\* what is on record of one invocation: its place, what the enhancer was
\* handed, what it returned, and the wall-clock time of the call
Entry(d, out, done) ==
    [build |-> Top(d).build, i |-> Top(d).i, acc |-> AccSeen(d),
     source |-> src[d], out |-> out, done |-> done, at |-> now]

\* a build that treats a raise as an empty partial and goes on
SwallowAndGoOn(d, o) ==
    /\ stack' = [stack EXCEPT ![d][Len(stack[d])].i = @ + 1]
    /\ src' = [src EXCEPT ![d] = o.source]
    /\ log' = [log EXCEPT ![d] = Append(@, Entry(d, EmptyObj, TRUE))]
    /\ UNCHANGED <<status, error, result, seeds, defaulted>>

\* what build() does with the outcome of an enhancer that raised
Unwind(d, o) ==
    /\ status' = [status EXCEPT ![d] = "raised"]
    /\ error' = [error EXCEPT ![d] = o.err]
    /\ stack' = [stack EXCEPT ![d] = << >>]
    /\ src' = [src EXCEPT ![d] = o.source]
    /\ log' = [log EXCEPT ![d] = Append(@, Entry(d, EmptyObj, FALSE))]
    /\ UNCHANGED <<result, seeds, defaulted>>

\* one iteration of `for (const enhancer of enhancers)`: the enhancer is
\* invoked and either returns, raises, or calls build() for a nested run
Invoke(d) ==
    /\ status[d] = "running"
    /\ stack[d] # << >>
    /\ Top(d).i <= Len(Enhancers(d))
    /\ Top(d).entry = 0
    /\ LET f == Top(d)
           n == Len(stack[d])
           enhancer == Enhancers(d)[f.i]
           acc == AccSeen(d)
       IN  IF CallsBuild(enhancer, acc)
           THEN /\ stack' = [stack EXCEPT ![d] =
                    Append([@ EXCEPT ![n].entry = Len(log[d]) + 1],
                           Frame(InitialAcc(
                                     RecursiveOverrides(acc, NestOverrides)),
                                 Len(seeds[d]) + 1, f.dflt))]
                /\ seeds' = [seeds EXCEPT ![d] =
                    Append(@, RecursiveOverrides(acc, NestOverrides))]
                /\ log' = [log EXCEPT ![d] =
                    Append(@, Entry(d, EmptyObj, FALSE))]
                /\ UNCHANGED <<src, status, error, result, defaulted>>
           ELSE LET o == Enhance(enhancer, src[d], acc, now)
                IN  IF o.threw THEN Unwind(d, o)
                    ELSE /\ stack' = [stack EXCEPT ![d][n] =
                               [@ EXCEPT !.acc = Spread(f.acc, OrEmpty(o)),
                                         !.i = f.i + 1,
                                         !.dflt = Redefault(f.dflt, OrEmpty(o),
                                                            o.now)]]
                         /\ src' = [src EXCEPT ![d] = o.source]
                         /\ log' = [log EXCEPT ![d] =
                               Append(@, Entry(d, OrEmpty(o), TRUE))]
                         /\ UNCHANGED <<status, error, result, seeds,
                                        defaulted>>
    /\ UNCHANGED <<mode, now, given, pipe, bound, viaFactory, mapped>>
    /\ UNCHANGED consumerVars

\* a build whose loop has run out and which never executes `return acc`
Stall(d) ==
    /\ status[d] = "running"
    /\ stack[d] # << >>
    /\ Top(d).i > Len(Enhancers(d))
    /\ UNCHANGED vars

\* `return acc`: the outermost build hands the view to the caller; a nested
\* build hands it to the enhancer that called build(), which then returns
Finish(d) ==
    /\ status[d] = "running"
    /\ stack[d] # << >>
    /\ Top(d).i > Len(Enhancers(d))
    /\ LET f == Top(d)
           n == Len(stack[d])
       IN  IF n = 1
           THEN /\ status' = [status EXCEPT ![d] = "returned"]
                /\ result' = [result EXCEPT ![d] = f.acc]
                /\ defaulted' = [defaulted EXCEPT ![d] = f.dflt]
                /\ stack' = [stack EXCEPT ![d] = << >>]
                /\ UNCHANGED <<src, log>>
           ELSE LET c == stack[d][n - 1]
                    o == AfterBuild(f.acc, src[d])
                IN  /\ stack' = [stack EXCEPT ![d] =
                          [SubSeq(@, 1, n - 1) EXCEPT ![n - 1] =
                             [c EXCEPT !.acc = Spread(c.acc, o.out),
                                       !.i = c.i + 1,
                                       !.entry = 0,
                                       !.dflt = Redefault(c.dflt, o.out,
                                           {<<"child">> \o p : p \in f.dflt})]]]
                    /\ src' = [src EXCEPT ![d] = o.source]
                    /\ log' = [log EXCEPT ![d][c.entry] =
                          [@ EXCEPT !.out = o.out, !.done = TRUE]]
                    /\ UNCHANGED <<status, result, defaulted>>
    /\ UNCHANGED <<mode, now, given, pipe, error, seeds, bound, viaFactory,
                   mapped>>
    /\ UNCHANGED consumerVars

Step == \E d \in Derivs : Invoke(d)
Return == \E d \in Derivs : Finish(d)

-----------------------------------------------------------------------------
(* fp realization: combine(...fns)(arg) *)

\* commentBase(source) of the fp realization; `spread` tells whether the
\* result is copied by Object.assign, which reads the preview getter
FpCommentBase(raw, spread) ==
    IF raw.t # "object" THEN Raises("TypeError", EmptyObj)
    ELSE LET body == Get(raw.v, "body")
         IN  IF Nullish(body) /\ spread THEN Raises("TypeError", raw.v)
             ELSE Returns("id" :> Get(raw.v, "id") @@ "body" :> body
                          @@ "preview" :> (IF Nullish(body)
                                           THEN Thrown("TypeError")
                                           ELSE body), raw.v)

\* a result key that is the source key whatever the target key
TargetKeyIgnored(key, targetKey) == key

\* targetKey || key
TargetKey(key, targetKey) == IF targetKey # "" THEN targetKey ELSE key

\* withMany(key, commentBase, targetKey)(source)
WithMany(key, targetKey, source) ==
    LET raws == Get(source, key)
    IN  IF raws.t # "array"
        THEN Returns(TargetKey(key, targetKey) :> Arr(<< >>), source)
        ELSE LET outs == [i \in 1..Len(raws.v) |->
                             FpCommentBase(raws.v[i], FALSE)]
             IN  IF \E i \in 1..Len(outs) : outs[i].threw
                 THEN Raises("TypeError", source)
                 ELSE [Returns(TargetKey(key, targetKey) :>
                                 Arr([i \in 1..Len(outs) |-> Obj(outs[i].out)]),
                               source)
                       EXCEPT !.calls = Len(outs)]

\* withOne(key, commentBase, targetKey)(source)
WithOne(key, targetKey, source) ==
    LET raw == Get(source, key)
    IN  IF ~Truthy(raw)
        THEN Returns(TargetKey(key, targetKey) :> Undefined, source)
        ELSE LET o == FpCommentBase(raw, FALSE)
             IN  IF o.threw THEN Raises(o.err, source)
                 ELSE [Returns(TargetKey(key, targetKey) :> Obj(o.out),
                               source)
                       EXCEPT !.calls = 1]

\* the mapping functions handed to combine
FpUnits ==
    {Unit("emit", c) : c \in EmitCfgs}
    \cup {Unit("withMany", c) : c \in {"", "notes"}}
    \cup {Unit("withOne", c) : c \in {"", "boss"}}
    \cup {Unit(k, "") : k \in {"commentBase", "falsy", "throws"}}

\* the embedders applied one at a time
FpMappers ==
    {<<Unit(k, c)>> : k \in {"withMany", "withOne"}, c \in {"", "notes"}}

\* fn(arg)
FpApply(fn, arg) ==
    CASE fn.kind = "emit" -> Returns(EmitOut(fn.cfg), arg)
      [] fn.kind = "withMany" -> WithMany("comments", fn.cfg, arg)
      [] fn.kind = "withOne" -> WithOne("lead", fn.cfg, arg)
      [] fn.kind = "commentBase" ->
            [FpCommentBase(Obj(arg), TRUE) EXCEPT !.source = arg]
      [] fn.kind = "falsy" -> ReturnsFalsy(arg)
      [] OTHER -> Raises("UnitError", arg)

\* Object.assign(target, ...sources): nullish sources are skipped
RECURSIVE ObjectAssign(_, _)
ObjectAssign(target, sources) ==
    IF sources = << >> THEN target
    ELSE ObjectAssign(Spread(target, OrEmpty(Head(sources))), Tail(sources))

\* combine(...fns)(arg): the call
CombineCall ==
    /\ mode = "combine"
    /\ status["A"] = "idle"
    /\ \E c \in (Sources \X Pipelines(FpUnits))
                 \cup (MapperSources \X FpMappers) :
        LET s == c[1]
            fns == c[2]
        IN
          /\ src' = [src EXCEPT !["A"] = s]
          /\ given' = [given EXCEPT !["A"] = s]
          /\ pipe' = [pipe EXCEPT !["A"] = fns]
    /\ status' = [status EXCEPT !["A"] = "running"]
    /\ mapped' = << >>
    /\ UNCHANGED <<mode, now, stack, result, error, log, seeds, defaulted,
                   bound, viaFactory>>
    /\ UNCHANGED consumerVars

\* fns.map(fn => fn(arg)): the next function is applied
CombineMap ==
    /\ mode = "combine"
    /\ status["A"] = "running"
    /\ Len(mapped) < Len(pipe["A"])
    /\ LET o == FpApply(pipe["A"][Len(mapped) + 1], src["A"])
       IN  /\ src' = [src EXCEPT !["A"] = o.source]
           /\ IF o.threw
              THEN /\ status' = [status EXCEPT !["A"] = "raised"]
                   /\ error' = [error EXCEPT !["A"] = o.err]
                   /\ UNCHANGED mapped
              ELSE /\ mapped' = Append(mapped, o)
                   /\ UNCHANGED <<status, error>>
    /\ UNCHANGED <<mode, now, given, pipe, stack, result, log, seeds,
                   defaulted, bound, viaFactory>>
    /\ UNCHANGED consumerVars

\* Object.assign({}, ...results) and the return
CombineAssign ==
    /\ mode = "combine"
    /\ status["A"] = "running"
    /\ Len(mapped) = Len(pipe["A"])
    /\ result' = [result EXCEPT !["A"] = ObjectAssign(EmptyObj, mapped)]
    /\ status' = [status EXCEPT !["A"] = "returned"]
    /\ UNCHANGED <<mode, now, src, given, pipe, stack, error, log, seeds,
                   defaulted, bound, viaFactory, mapped>>
    /\ UNCHANGED consumerVars

-----------------------------------------------------------------------------
(* class realization: applyMixins, createFactory and the getters *)

\* mixin(Base): the class that extends Base by the mixin's getters
Extend(Base, mixin) == Append(Base, mixin)

\* applyMixins(Base, ...mixins): mixins.reduce((acc, mixin) => mixin(acc), Base)
RECURSIVE ApplyMixins(_, _)
ApplyMixins(Base, mixins) ==
    IF mixins = << >> THEN Base
    ELSE ApplyMixins(Extend(Base, Head(mixins)), Tail(mixins))

\* class TaskBase extends BaseModel
TaskBaseClass == <<Unit("TaskBase", "")>>

\* the mixins applied to TaskBase
ClassMixins ==
    {Unit("withWatchable", c) : c \in {"task", "post", "forceOn"}}
    \cup {Unit("withTimestamps", c) : c \in {"default", "fixed"}}
    \cup {Unit(k, "") : k \in {"withSoftDelete", "titled"}}

\* mixin lists with WithTimestamps({ createdAt: s => s.publishedAt }) and
\* WithTimestamps({ updatedAt: s => s.publishedAt })
OverriddenMixins ==
    { <<Unit("withTimestamps", "published")>>,
      <<Unit("withTimestamps", "republished")>> }

\* mixin lists with WithAuthor(opts)
AuthoredMixins ==
    { <<Unit("withAuthor", "default")>>,
      <<Unit("withAuthor", "whole")>>,
      <<Unit("withAuthor", "badName")>>,
      <<Unit("withAuthor", "named"), Unit("withTimestamps", "default")>>,
      <<Unit("withWatchable", "task"), Unit("withAuthor", "idLit")>>,
      <<Unit("withAuthor", "default"), Unit("withAuthor", "named")>> }

\* the getters a class declares
LayerKeys(layer) ==
    CASE layer.kind = "TaskBase" ->
           {"id", "title", "body", "status", "priority", "tags", "summary",
            "isCompleted", "isHighPriority"}
      [] layer.kind = "withWatchable" ->
           {"isWatched", "watcherType", "watcherId"}
      [] layer.kind = "withTimestamps" -> {"createdAt", "updatedAt"}
      [] layer.kind = "withSoftDelete" -> {"deletedAt", "isDeleted"}
      [] layer.kind = "withAuthor" -> {"author"}
      [] layer.kind = "titled" -> {"title"}
      [] OTHER -> {}

\* property lookup along the prototype chain: the most derived of the first
\* n classes that declares the key, 0 when none does
RECURSIVE Declaring(_, _, _)
Declaring(class, n, key) ==
    IF n = 0 THEN 0
    ELSE IF key \in LayerKeys(class[n]) THEN n
    ELSE Declaring(class, n - 1, key)

\* "key" in instance
InInstance(class, key) ==
    key = "_source" \/ Declaring(class, Len(class), key) # 0

RECURSIVE ClassGet(_, _, _, _)

\* the getters of TaskBase
TaskBaseGet(class, source, key, t) ==
    CASE key = "priority" -> Coalesce(Get(source, "priority"), Str("medium"))
      [] key = "tags" -> Coalesce(Get(source, "tags"), Arr(<< >>))
      [] key = "summary" ->
           LET body == ClassGet(class, source, "body", t)
           IN  IF Nullish(body) THEN Thrown("TypeError")
               ELSE IF body = Str(LongBody) THEN Str(LongBodyCut) ELSE body
      [] key = "isCompleted" ->
           Bool(ClassGet(class, source, "status", t) = Str("done"))
      [] key = "isHighPriority" ->
           Bool(ClassGet(class, source, "priority", t) = Str("high"))
      [] OTHER -> Get(source, key)

\* the getters of the class WithWatchable(opts) returns
WatchableGet(opts, source, key) ==
    CASE key = "isWatched" ->
           IF opts.isWatched # NotSet
           THEN ResolveSelector(source, opts.isWatched)
           ELSE Coalesce(Get(source, "isWatched"), Bool(FALSE))
      [] key = "watcherType" -> ResolveSelector(source, opts.watcherType)
      [] OTHER -> ResolveSelector(source, opts.watcherId)

\* the getters of the class WithTimestamps(opts) returns, read at time t
TimestampedGet(opts, source, key, t) ==
    IF key = "createdAt"
    THEN ToDate(CreatedAtValue(opts, source), t)
    ELSE ToDate(UpdatedAtValue(opts, source), t)

\* the getters of the class WithSoftDelete() returns
SoftDeletableGet(class, source, key, t) ==
    IF key = "deletedAt"
    THEN LET raw == Coalesce(Get(source, "deletedAt"),
                             Get(source, "deleted_at"))
         IN  IF Truthy(raw) THEN ToDate(raw, t) ELSE Null
    ELSE Bool(ClassGet(class, source, "deletedAt", t) # Null)

\* the getter `key` that the n-th class of the chain declares, run on an
\* instance of `class` at time t
GetterOf(class, n, source, key, t) ==
    CASE class[n].kind = "TaskBase" -> TaskBaseGet(class, source, key, t)
      [] class[n].kind = "withWatchable" ->
           WatchableGet(WatchableOpts(class[n].cfg), source, key)
      [] class[n].kind = "withTimestamps" ->
           TimestampedGet(TimestampsOpts(class[n].cfg), source, key, t)
      [] class[n].kind = "withSoftDelete" ->
           SoftDeletableGet(class, source, key, t)
      [] class[n].kind = "withAuthor" ->
           ExtractAuthor(source, AuthorOpts(class[n].cfg))
      [] OTHER -> Str("Untitled")

\* instance[key], read at time t
ClassGet(class, source, key, t) ==
    LET n == Declaring(class, Len(class), key)
    IN  IF n = 0 THEN Undefined ELSE GetterOf(class, n, source, key, t)

\* new Model(source): the constructor stores the source; _authorCache is
\* unset; `extracted` counts the runs of extractAuthor for this instance,
\* `cachedBy` tells which run made the cached object, and `authorReads`
\* keeps what each read of author gave
New(source, class) ==
    [made |-> TRUE, source |-> source, class |-> class,
     authorCache |-> Undefined, cachedBy |-> 0, extracted |-> 0,
     authorReads |-> << >>]

\* createFactory(applyMixins(TaskBase, ...mixins))(source)
Instantiate ==
    /\ mode \in {"class", "authored"}
    /\ ~inst.made
    /\ \E c \in (IF mode = "class"
                 THEN Sources \X (Pipelines(ClassMixins) \cup AuthoredMixins
                                   \cup OverriddenMixins)
                 ELSE (Sources \cup MapperSources) \X AuthoredMixins) :
          inst' = New(c[1], ApplyMixins(TaskBaseClass, c[2]))
    /\ UNCHANGED <<mode, now, src, given, pipe, status, stack, result, error,
                   log, seeds, defaulted, bound, viaFactory, mapped, probe,
                   toggle, notes, asked, twin, resolved>>

\* a second instance of the class of the first, from any source
InstantiateTwin ==
    /\ mode = "authored"
    /\ inst.made
    /\ ~twin.made
    /\ InInstance(inst.class, "author")
    /\ \E s \in Sources \cup MapperSources : twin' = New(s, inst.class)
    /\ UNCHANGED <<mode, now, src, given, pipe, status, stack, result, error,
                   log, seeds, defaulted, bound, viaFactory, mapped, inst,
                   probe, toggle, notes, asked, resolved>>

\* a cache that is never found filled
CacheAlwaysEmpty(me, other) == Undefined

\* a cache kept in one place for all instances
CacheOfClass(me, other) ==
    IF Truthy(me.authorCache) THEN me.authorCache ELSE other.authorCache

\* this._authorCache, for the instance `me` next to the instance `other`
AuthorCache(me, other) == me.authorCache

\* get author() on the instance `me`: the instance after the read
AuthorRead(me, other) ==
    LET n == Declaring(me.class, Len(me.class), "author")
        cache == AuthorCache(me, other)
    IN  IF ~Truthy(cache)
        THEN LET a == ExtractAuthor(me.source, AuthorOpts(me.class[n].cfg))
                 by == me.extracted + 1
             IN  IF IsThrown(a)
                 THEN [me EXCEPT !.extracted = by,
                                 !.authorReads =
                                     Append(@, [value |-> a, by |-> by])]
                 ELSE [me EXCEPT !.extracted = by, !.authorCache = a,
                                 !.cachedBy = by,
                                 !.authorReads =
                                     Append(@, [value |-> a, by |-> by])]
        ELSE [me EXCEPT !.authorReads =
                            Append(@, [value |-> cache, by |-> me.cachedBy])]

\* a consumer reads view.author on one of the instances
ReadAuthor ==
    /\ mode = "authored"
    /\ \/ /\ inst.made
          /\ InInstance(inst.class, "author")
          /\ Len(inst.authorReads) < MaxReads
          /\ inst' = AuthorRead(inst, twin)
          /\ UNCHANGED twin
       \/ /\ twin.made
          /\ Len(twin.authorReads) < MaxReads
          /\ twin' = AuthorRead(twin, inst)
          /\ UNCHANGED inst
    /\ UNCHANGED <<mode, now, src, given, pipe, status, stack, result, error,
                   log, seeds, defaulted, bound, viaFactory, mapped, probe,
                   toggle, notes, asked, resolved>>

-----------------------------------------------------------------------------
(* consumers of a view: field reads, capability guards, the watch toggle *)

\* a view is at hand: the plain object composeModel returned, or the instance
ViewReady ==
    \/ mode = "view" /\ status["A"] = "returned"
    \/ mode = "class" /\ inst.made

\* view[key], read now
FieldValue(key) ==
    IF mode = "class" THEN ClassGet(inst.class, inst.source, key, now)
    ELSE Get(result["A"], key)

\* "key" in view
InView(key) ==
    IF mode = "class" THEN InInstance(inst.class, key)
    ELSE Has(result["A"], key)

\* isWatchable(view) of the function realization
IsWatchableFn == InView("isWatched")

\* isWatchable(view) of the class realization
IsWatchableClass ==
    InView("isWatched") /\ InView("watcherType") /\ InView("watcherId")

IsTimestampedView == InView("createdAt") /\ InView("updatedAt")

\* a guard that looks for an authorId key
IsAuthoredById == InView("authorId")

\* isAuthored(view)
IsAuthoredView == InView("author")

GuardValue(g) ==
    CASE g = "isWatchable()" ->
           Bool(IF mode = "class" THEN IsWatchableClass ELSE IsWatchableFn)
      [] g = "isTimestamped()" -> Bool(IsTimestampedView)
      [] OTHER -> Bool(IsAuthoredView)

FieldKeys ==
    {"id", "title", "summary", "isWatched", "watcherType", "createdAt",
     "updatedAt", "isDeleted"}
GuardNames == {"isWatchable()", "isTimestamped()", "isAuthored()"}

Observe(key, value) ==
    /\ probe.key \in {"", key}
    /\ probe' = IF probe.n = 0
                THEN [key |-> key, n |-> 1, first |-> value, last |-> value]
                ELSE [probe EXCEPT !.n = 2, !.last = value]
    /\ UNCHANGED <<mode, now, src, given, pipe, status, stack, result, error,
                   log, seeds, defaulted, bound, viaFactory, mapped, inst,
                   toggle, notes, asked, twin, resolved>>

\* a consumer reads a field of the view
ReadField ==
    /\ ViewReady
    /\ \E key \in FieldKeys : Observe(key, FieldValue(key))

\* a consumer calls a capability guard on the view
GuardCall ==
    /\ ViewReady
    /\ \E g \in GuardNames : Observe(g, GuardValue(g))

\* <WatchToggle watchable={task} />: useWatchableToggle's useState
Mount ==
    /\ mode = "view"
    /\ ViewReady
    /\ ~toggle.mounted
    /\ IsWatchableFn
    /\ toggle' = [mounted |-> TRUE, isWatched |-> FieldValue("isWatched"),
                  sets |-> 0, args |-> << >>]
    /\ UNCHANGED <<mode, now, src, given, pipe, status, stack, result, error,
                   log, seeds, defaulted, bound, viaFactory, mapped, inst,
                   probe, notes, asked, twin, resolved>>

\* a setter that updates the local state and tells nobody
SetIsWatchedSilently ==
    /\ toggle.mounted
    /\ toggle.sets < MaxSets
    /\ \E v \in BOOLEAN :
          toggle' = [toggle EXCEPT !.isWatched = Bool(v), !.sets = @ + 1,
                                   !.args = Append(@, v)]
    /\ UNCHANGED <<mode, now, src, given, pipe, status, stack, result, error,
                   log, seeds, defaulted, bound, viaFactory, mapped, inst,
                   probe, notes, asked, twin, resolved>>

\* setIsWatched(v): _setIsWatched(v) and the console.log notification;
\* `args` keeps the arguments of the calls made
SetIsWatched ==
    /\ toggle.mounted
    /\ toggle.sets < MaxSets
    /\ \E v \in BOOLEAN :
          /\ toggle' = [toggle EXCEPT !.isWatched = Bool(v), !.sets = @ + 1,
                                      !.args = Append(@, v)]
          /\ notes' = Append(notes, [watcherType |-> FieldValue("watcherType"),
                                     watcherId |-> FieldValue("watcherId"),
                                     isWatched |-> Bool(v)])
    /\ UNCHANGED <<mode, now, src, given, pipe, status, stack, result, error,
                   log, seeds, defaulted, bound, viaFactory, mapped, inst,
                   probe, asked, twin, resolved>>

\* "key" in x, for a value that `in` accepts
KeyIn(key, x) == x.t = "object" /\ key \in DOMAIN x.v

\* typeof x
TypeOf(x) ==
    CASE x.t \in {"object", "array", "Date", "null"} -> "object"
      [] OTHER -> x.t

\* a guard that asks for the createdAt key only
IsTimestampedOneKey(x) ==
    Bool(TypeOf(x) = "object" /\ x # Null /\ KeyIn("createdAt", x))

\* isTimestamped(obj)
IsTimestamped(x) ==
    Bool(TypeOf(x) = "object" /\ x # Null /\ KeyIn("createdAt", x)
         /\ KeyIn("updatedAt", x))

\* isWatchable(watchable) of the function realization
IsWatchable(x) ==
    Bool(TypeOf(x) = "object" /\ x # Null /\ KeyIn("isWatched", x))

\* isWatchable(obj) of the class realization
IsWatchableOfClass(x) ==
    Bool(TypeOf(x) = "object" /\ x # Null /\ KeyIn("isWatched", x)
         /\ KeyIn("watcherType", x) /\ KeyIn("watcherId", x))

\* values of unknown origin that a caller may hand to a guard
GuardInputs ==
    {Null, Undefined, Num(5), Str("createdAt"), Bool(TRUE), Arr(<< >>),
     DateV(19000), Obj(EmptyObj),
     Obj("createdAt" :> DateV(19000)),
     Obj("updatedAt" :> DateV(19000) @@ "created_at" :> DateV(19000)),
     Obj("createdAt" :> Undefined @@ "updatedAt" :> Null),
     Obj("isWatched" :> Bool(TRUE)),
     Obj("watcherType" :> Str("task") @@ "watcherId" :> Str("t1")),
     Obj("isWatched" :> Undefined @@ "watcherType" :> Str("task")
         @@ "watcherId" :> Null),
     Obj("id" :> Str("x") @@ "createdAt" :> Str("no date")
         @@ "updatedAt" :> Num(0))}

\* a caller hands a value to isTimestamped and to the isWatchable of each
\* realization: a value of unknown origin, or the view that the derivation
\* returned
GuardAny ==
    /\ mode = "mapper"
    /\ status["A"] \in {"returned", "raised"}
    /\ ~asked.made
    /\ \E x \in GuardInputs
                \cup {Obj(result[d]) : d \in {e \in {"A"} :
                                                 status[e] = "returned"}} :
          asked' = [made |-> TRUE, arg |-> x, answer |-> IsTimestamped(x),
                    watchableFn |-> IsWatchable(x),
                    watchableClass |-> IsWatchableOfClass(x)]
    /\ UNCHANGED <<mode, now, src, given, pipe, status, stack, result, error,
                   log, seeds, defaulted, bound, viaFactory, mapped, inst,
                   probe, toggle, notes, twin, resolved>>

\* a caller resolves a configuration value against a source, with the
\* resolveSelector of each realization
ResolveCall ==
    /\ mode = "selector"
    /\ ~resolved.made
    /\ \E s \in Sources \cup MapperSources : \E c \in SelectorOrValues :
          resolved' = [made |-> TRUE, source |-> s, selectorOrValue |-> c,
                       result |-> ResolveSelector(s, c),
                       called |-> SelectorCalls(s, c),
                       resultOfClass |-> ResolveSelectorOfClass(s, c),
                       calledOfClass |-> SelectorCalls(s, c)]
    /\ UNCHANGED <<mode, now, src, given, pipe, status, stack, result, error,
                   log, seeds, defaulted, bound, viaFactory, mapped, inst,
                   probe, toggle, notes, asked, twin>>

-----------------------------------------------------------------------------

Next == Tick \/ Derive \/ DeriveAgain \/ DerivePair \/ Bind \/ FactoryCall
        \/ Step \/ Return \/ CombineCall \/ CombineMap \/ CombineAssign
        \/ Instantiate \/ ReadField \/ GuardCall \/ Mount \/ SetIsWatched
        \/ GuardAny \/ InstantiateTwin \/ ReadAuthor \/ ResolveCall

Spec == Init /\ [][Next]_vars

\* composeModel is synchronous: once called, the loop of build() keeps
\* invoking enhancers and returning until the call has left the stack
LiveInit == Init /\ mode = "engine"
LiveNext == Derive \/ Step \/ Return
LiveSpec ==
    LiveInit /\ [][LiveNext]_vars /\ WF_vars(Step) /\ WF_vars(Return)

-----------------------------------------------------------------------------
(* Properties *)

ComposeModes == {"engine", "behaviors", "pair", "view"}

\* the log entries of one build() of derivation d, in invocation order
EntriesOf(d, b) == SelectSeq(log[d], LAMBDA e : e.build = b)

\* the left-to-right shallow merge: keys of b override same-named keys of a
MergeRight(a, b) ==
    [k \in DOMAIN a \cup DOMAIN b |-> IF k \in DOMAIN b THEN b[k] ELSE a[k]]

\* the seed merged with the partials of the first n entries
RECURSIVE FoldOuts(_, _, _)
FoldOuts(seed, es, n) ==
    IF n = 0 THEN seed ELSE MergeRight(FoldOuts(seed, es, n - 1), es[n].out)

\* the positions of a sequence of partials that output key k
Outputting(outs, k) == {j \in 1..Len(outs) : k \in DOMAIN outs[j]}

Last(S) == CHOOSE j \in S : \A h \in S : h <= j

OutsOf(d) ==
    IF mode = "combine" THEN [j \in 1..Len(mapped) |-> OrEmpty(mapped[j])]
    ELSE [j \in 1..Len(EntriesOf(d, 1)) |-> EntriesOf(d, 1)[j].out]

\* C1: when several mapping units output the same key, the view holds the
\* value output by the last of them in pipeline order: for composeModel and
\* for combine over the partials returned, and for applyMixins over the
\* getters declared along the class chain.
LaterUnitWins ==
    /\ \A d \in Derivs :
          status[d] = "returned" =>
             LET outs == OutsOf(d)
             IN  \A k \in DOMAIN result[d] :
                    LET js == Outputting(outs, k)
                    IN  js # {} => result[d][k] = outs[Last(js)][k]
    /\ inst.made =>
          \A key \in UNION {LayerKeys(m) : m \in ClassMixins} :
             LET js == {j \in 1..Len(inst.class) :
                           key \in LayerKeys(inst.class[j])}
             IN  js # {} =>
                    ClassGet(inst.class, inst.source, key, now)
                    = GetterOf(inst.class, Last(js), inst.source, key, now)

\* C1 witness: two enhancers output one key with different values and the
\* returned view holds the later value.
LaterUnitWinsWitness ==
    \E d \in Derivs :
       /\ mode \in ComposeModes
       /\ status[d] = "returned"
       /\ \E k \in DOMAIN result[d] :
             \E i, j \in Outputting(OutsOf(d), k) :
                /\ i < j
                /\ OutsOf(d)[i][k] # OutsOf(d)[j][k]
                /\ result[d][k] = OutsOf(d)[j][k]

\* C2: the key set of the view a top-level composeModel call returns is the
\* union of the key sets of the partials its units returned (a falsy return
\* contributing no key).
KeysAreUnion ==
    \A d \in Derivs :
       (mode \in ComposeModes /\ status[d] = "returned") =>
          DOMAIN result[d]
          = UNION {DOMAIN OutsOf(d)[j] : j \in 1..Len(OutsOf(d))}

\* C2 witness: a returned view built from a falsy return and from partials
\* with different keys.
KeysAreUnionWitness ==
    \E d \in Derivs :
       /\ mode \in ComposeModes
       /\ status[d] = "returned"
       /\ \E i, j \in 1..Len(pipe[d]) :
             /\ pipe[d][i].kind = "falsy"
             /\ DOMAIN OutsOf(d)[j] # {}
       /\ Cardinality(DOMAIN result[d]) >= 2

\* C3: within one build every unit is invoked once, in declared order, with
\* the original source and with the merge of the seed and the partials of
\* the units before it; a build that returns has invoked every unit.
InvokedOnceInOrder ==
    \A d \in Derivs :
       \A b \in 1..Len(seeds[d]) :
          LET es == EntriesOf(d, b)
          IN  /\ Len(es) <= Len(pipe[d])
              /\ \A j \in 1..Len(es) :
                    /\ es[j].i = j
                    /\ es[j].source = given[d]
                    /\ es[j].acc = FoldOuts(seeds[d][b], es, j - 1)
                    /\ j < Len(es) => es[j].done
              /\ (b = 1 /\ status[d] = "returned") => Len(es) = Len(pipe[d])

\* C3 witness: a returned build whose second unit was handed the partial of
\* the first, after a nested build ran.
InvokedOnceInOrderWitness ==
    \E d \in Derivs :
       /\ status[d] = "returned"
       /\ Len(seeds[d]) >= 2
       /\ Len(EntriesOf(d, 1)) >= 2
       /\ EntriesOf(d, 1)[2].acc # EmptyObj
       /\ EntriesOf(d, 1)[2].acc = EntriesOf(d, 1)[1].out

\* the error a logged invocation raises, "" when it returns
RaisedBy(d, e) ==
    IF CallsBuild(pipe[d][e.i], e.acc) THEN ""
    ELSE LET o == Enhance(pipe[d][e.i], e.source, e.acc, now)
         IN  IF o.threw THEN o.err ELSE ""

FactoryEqualsAdHoc ==
    \A d \in Derivs :
       (viaFactory[d] /\ status[d] \in {"returned", "raised"}) =>
          LET adhoc == ComposeModel(given[d], bound.enhancers, now)
          IN  /\ pipe[d] = bound.enhancers
              /\ (status[d] = "raised") = adhoc.threw
              /\ status[d] = "returned" => result[d] = adhoc.view
              /\ status[d] = "raised" => error[d] = adhoc.err

\* C5 witness: one bound factory has returned different views for two
\* different sources, the bound list holding a nested build.
FactoryEqualsAdHocWitness ==
    /\ viaFactory["A"] /\ viaFactory["B"]
    /\ status["A"] = "returned" /\ status["B"] = "returned"
    /\ given["A"] # given["B"]
    /\ result["A"] # result["B"]
    /\ \E j \in 1..Len(bound.enhancers) : bound.enhancers[j].kind = "nested"

\* the value v with the values at the paths P replaced by one placeholder
RECURSIVE Mask(_, _)
Mask(v, P) ==
    IF P = {} THEN v
    ELSE IF << >> \in P THEN Str("(default date)")
    ELSE IF v.t = "object"
    THEN Obj([k \in DOMAIN v.v |->
                 Mask(v.v[k], {Tail(p) : p \in {q \in P : Head(q) = k}})])
    ELSE IF v.t = "array"
    THEN Arr([i \in 1..Len(v.v) |->
                 Mask(v.v[i],
                      {Tail(p) : p \in {q \in P : Head(q) = ToString(i)}})])
    ELSE v

\* C6: a second derivation from an equal source with the same enhancers ends
\* as the first did, and the two views are structurally equal once the
\* createdAt/updatedAt values that defaulted to the current time are set
\* aside; a top-level createdAt/updatedAt is set aside only when the
\* withTimestamps enhancer found no input for it.
RederivingIsIdempotent ==
    (mode \in {"engine", "behaviors"}
     /\ status["B"] \in {"returned", "raised"}) =>
       /\ status["B"] = status["A"]
       /\ error["B"] = error["A"]
       /\ defaulted["B"] = defaulted["A"]
       /\ Mask(Obj(result["B"]), defaulted["B"])
          = Mask(Obj(result["A"]), defaulted["A"])
       /\ \A p \in defaulted["A"] :
             /\ p[Len(p)] \in {"createdAt", "updatedAt"}
             /\ Len(p) = 1 =>
                  \E j \in 1..Len(pipe["A"]) :
                     /\ pipe["A"][j].kind = "withTimestamps"
                     /\ Undefined =
                          IF p[1] = "createdAt"
                          THEN CreatedAtValue(TimestampsOpts(pipe["A"][j].cfg),
                                              given["A"])
                          ELSE UpdatedAtValue(TimestampsOpts(pipe["A"][j].cfg),
                                              given["A"])

\* C6 witness: two derivations from one source at different times, whose
\* views hold a parsed updatedAt and differ only in the defaulted createdAt.
RederivingIsIdempotentWitness ==
    /\ mode = "behaviors"
    /\ status["A"] = "returned" /\ status["B"] = "returned"
    /\ result["A"] # result["B"]
    /\ defaulted["A"] = {<<"createdAt">>}
    /\ Get(result["A"], "updatedAt") = DateV(19000)
    /\ Get(result["B"], "updatedAt") = DateV(19000)

\* C7: of two composeModel derivations whose enhancer invocations
\* interleave, each ends as it would when run alone, and every partial an
\* enhancer returned is the one it yields on its own derivation's source and
\* on the accumulator folded from its own derivation's earlier partials.
InterleavingIsHarmless ==
    mode = "pair" =>
       \A d \in Derivs :
          /\ \A n \in 1..Len(log[d]) :
                LET e == log[d][n]
                    own == FoldOuts(seeds[d][e.build], EntriesOf(d, e.build),
                                    e.i - 1)
                IN  (e.done /\ ~CallsBuild(pipe[d][e.i], own)) =>
                       e.out = OrEmpty(Enhance(pipe[d][e.i], given[d], own,
                                               now))
          /\ status[d] \in {"returned", "raised"} =>
                LET alone == ComposeModel(given[d], pipe[d], now)
                IN  /\ (status[d] = "raised") = alone.threw
                    /\ status[d] = "returned" => result[d] = alone.view
                    /\ status[d] = "raised" => error[d] = alone.err

\* C7 witness: two derivations over different sources are both under way,
\* each with a partial merged into an accumulator unlike the other's.
InterleavingIsHarmlessWitness ==
    /\ mode = "pair"
    /\ status["A"] = "running" /\ status["B"] = "running"
    /\ given["A"] # given["B"]
    /\ log["A"] # << >> /\ log["B"] # << >>
    /\ stack["A"][1].acc # EmptyObj
    /\ stack["B"][1].acc # EmptyObj
    /\ stack["A"][1].acc # stack["B"][1].acc

\* C8: the source record of a derivation is, at every point of the
\* derivation and after it has returned or raised, the record the caller
\* handed in: composeModel, combine, the behaviours and the relation helpers
\* leave it as it was.
SourceNeverWritten ==
    \A d \in Derivs : status[d] # "idle" => src[d] = given[d]

\* C8 witness: a derivation that embedded the comments of its source and
\* resolved its author has returned, and its repetition has too.
SourceNeverWrittenWitness ==
    /\ mode = "behaviors"
    /\ status["A"] = "returned" /\ status["B"] = "returned"
    /\ Get(given["A"], "comments").t = "array"
    /\ \E i, j \in 1..Len(pipe["A"]) :
          /\ pipe["A"][i].kind = "withComments"
          /\ pipe["A"][j].kind = "withAuthor"
    /\ src["A"] = given["A"]

\* C9: every read of one field of a derived view, and every call of one
\* capability guard on it, returns what the first one returned, whatever
\* reads, guard calls, toggle-setter calls and clock ticks lie between.
ViewFieldsConstant ==
    probe.n = 2 => probe.last = probe.first

\* the isWatched value the resolution order names, for the options opts
WatchedByOrder(opts, source, acc) ==
    IF opts.isWatched # NotSet THEN ResolveSelector(source, opts.isWatched)
    ELSE IF Has(acc, "isWatched") /\ ~Nullish(acc["isWatched"])
    THEN acc["isWatched"]
    ELSE IF Has(source, "isWatched") /\ ~Nullish(source["isWatched"])
    THEN source["isWatched"]
    ELSE Bool(FALSE)

\* C10: the isWatched that withWatchable outputs is the configured override
\* (literal, or selector applied to the source) when there is one, else the
\* isWatched of the accumulator when an earlier enhancer put one there, else
\* source.isWatched, else false; the getter of the WithWatchable mixin
\* returns the override when there is one, else source.isWatched, else
\* false.
WatchedResolution ==
    /\ mode \in ComposeModes =>
          \A d \in Derivs : \A n \in 1..Len(log[d]) :
             LET e == log[d][n]
                 unit == pipe[d][e.i]
             IN  (unit.kind = "withWatchable" /\ e.done) =>
                    e.out["isWatched"]
                    = WatchedByOrder(WatchableOpts(unit.cfg), given[d], e.acc)
    /\ (inst.made /\ Declaring(inst.class, Len(inst.class), "isWatched") # 0)
          => LET n == Declaring(inst.class, Len(inst.class), "isWatched")
             IN  ClassGet(inst.class, inst.source, "isWatched", now)
                 = WatchedByOrder(WatchableOpts(inst.class[n].cfg),
                                  inst.source, EmptyObj)

\* C10 witness: withWatchable without an override ran on a source whose
\* isWatched is true after an enhancer that output isWatched false, and
\* output false.
WatchedResolutionWitness ==
    \E d \in Derivs : \E n \in 1..Len(log[d]) :
       /\ mode \in ComposeModes
       /\ pipe[d][log[d][n].i].kind = "withWatchable"
       /\ WatchableOpts(pipe[d][log[d][n].i].cfg).isWatched = NotSet
       /\ log[d][n].done
       /\ Get(given[d], "isWatched") = Bool(TRUE)
       /\ Get(log[d][n].acc, "isWatched") = Bool(FALSE)
       /\ log[d][n].out["isWatched"] = Bool(FALSE)

\* the invocations on record of the units of one kind, each with its unit
InvocationsOf(kind) ==
    UNION {{[unit |-> pipe[d][log[d][j].i], e |-> log[d][j]] :
               j \in {h \in 1..Len(log[d]) : pipe[d][log[d][h].i].kind = kind}} :
           d \in Derivs}

\* a source field is present: the record has the key and its value is
\* neither null nor undefined
Present(source, k) == k \in DOMAIN source /\ ~Nullish(source[k])

\* the timestamp that the ladder override > camelCase > snake_case > clock
\* gives, the clock reading t
LadderDate(override, source, camel, snake, t) ==
    IF override # NotSet THEN ToDate(ResolveSelector(source, override), t)
    ELSE IF Present(source, camel) THEN ToDate(source[camel], t)
    ELSE IF Present(source, snake) THEN ToDate(source[snake], t)
    ELSE DateV(t)

\* the rung of the ladder that reads the clock applies
OnClockRung(override, source, camel, snake) ==
    IF override # NotSet THEN ResolveSelector(source, override) = Undefined
    ELSE ~Present(source, camel) /\ ~Present(source, snake)

\* C11: createdAt and updatedAt are each taken from the override if one is
\* configured, else from the camelCase field if present, else from the
\* snake_case field if present, else from the wall clock; this for the
\* partial that withTimestamps returns and for the getters of the class
\* mixin.
TimestampLadder ==
    /\ \A x \in InvocationsOf("withTimestamps") :
          LET opts == TimestampsOpts(x.unit.cfg)
          IN  x.e.done =>
                /\ x.e.out["createdAt"] =
                     LadderDate(opts.createdAt, x.e.source, "createdAt",
                                "created_at", x.e.at)
                /\ x.e.out["updatedAt"] =
                     LadderDate(opts.updatedAt, x.e.source, "updatedAt",
                                "updated_at", x.e.at)
    /\ (mode = "class" /\ probe.n > 0
        /\ probe.key \in {"createdAt", "updatedAt"}
        /\ InInstance(inst.class, probe.key)) =>
          LET n == Declaring(inst.class, Len(inst.class), probe.key)
              opts == TimestampsOpts(inst.class[n].cfg)
              override == IF probe.key = "createdAt" THEN opts.createdAt
                          ELSE opts.updatedAt
              snake == IF probe.key = "createdAt" THEN "created_at"
                       ELSE "updated_at"
          IN  IF OnClockRung(override, inst.source, probe.key, snake)
              THEN probe.last.t = "Date" /\ probe.last.v \in 20000..now
              ELSE probe.last =
                     LadderDate(override, inst.source, probe.key, snake, now)

\* camelCase and snake_case createdAt differ and the camelCase one is used,
\* and another call took updatedAt from the clock
TimestampLadderWitness ==
    \E x \in InvocationsOf("withTimestamps") :
       /\ x.unit.cfg = "default"
       /\ x.e.done
       /\ Present(x.e.source, "createdAt")
       /\ Present(x.e.source, "created_at")
       /\ x.e.source["createdAt"] # x.e.source["created_at"]
       /\ x.e.out["createdAt"] = DateV(ParseDate(x.e.source["createdAt"].v))
       /\ x.e.out["updatedAt"] = DateV(x.e.at)
       /\ x.e.at > 20000

\* the rung of author resolution that applies
AuthorRung(opts, source) ==
    IF opts.author # NotSet THEN "override"
    ELSE IF Present(source, "author") THEN "author"
    ELSE IF Present(source, "user") THEN "user"
    ELSE "scalar"

ScalarIdKeys == <<"authorId", "author_id", "userId", "user_id">>

\* C12: author resolution takes the first rung that matches: a configured
\* author override is the output verbatim whatever else the source and the
\* options hold; else the embedded author object is used, else the embedded
\* user object; the scalar ids are used only when neither object is there.
AuthorRungOrder ==
    \A x \in InvocationsOf("withAuthor") :
       LET opts == AuthorOpts(x.unit.cfg)
           source == x.e.source
           rung == AuthorRung(opts, source)
       IN  x.e.done =>
             /\ DOMAIN x.e.out = {"author"}
             /\ rung = "override" =>
                   x.e.out["author"] = ResolveSelector(source, opts.author)
             /\ (rung \in {"author", "user"} /\ opts.authorId = NotSet) =>
                   x.e.out["author"].v["id"] = source[rung].v["id"]
             /\ (rung = "scalar" /\ opts.authorId = NotSet) =>
                   x.e.out["author"].v["id"] \in
                      {source[ScalarIdKeys[j]] :
                          j \in {h \in 1..4 : Present(source, ScalarIdKeys[h])}}
                      \cup {Str("unknown")}

\* a source with an author object, a user object and a scalar id, mapped
\* without overrides: the author object's id is the output id
AuthorRungOrderWitness ==
    \E x \in InvocationsOf("withAuthor") :
       /\ x.e.done
       /\ x.unit.cfg = "default"
       /\ Present(x.e.source, "author")
       /\ Present(x.e.source, "user")
       /\ Present(x.e.source, "authorId")
       /\ x.e.source["author"].v["id"] # x.e.source["user"].v["id"]
       /\ x.e.out["author"].v["id"] = x.e.source["author"].v["id"]

\* the first of the keys present on the object, `dflt` when none is
RECURSIVE FirstPresent(_, _, _)
FirstPresent(obj, keys, dflt) ==
    IF keys = << >> THEN dflt
    ELSE IF Present(obj, Head(keys)) THEN obj[Head(keys)]
    ELSE FirstPresent(obj, Tail(keys), dflt)

NoFieldOverride(opts) ==
    /\ opts.authorId = NotSet
    /\ opts.authorName = NotSet
    /\ opts.avatarUrl = NotSet

\* C13: with an embedded author or user object in use and no field override
\* configured, the output id is the object's id, the name is the first
\* present of displayName, name, username, else "Unknown", and avatarUrl is
\* the first present of avatarUrl, avatar_url, avatar, else undefined.
EmbeddedAuthorFields ==
    \A x \in InvocationsOf("withAuthor") :
       LET opts == AuthorOpts(x.unit.cfg)
           rung == AuthorRung(opts, x.e.source)
       IN  (rung \in {"author", "user"} /\ NoFieldOverride(opts)) =>
             LET obj == x.e.source[rung].v
             IN  /\ x.e.done
                 /\ x.e.out["author"] =
                      Obj("id" :> obj["id"]
                          @@ "name" :>
                               FirstPresent(obj, <<"displayName", "name",
                                                   "username">>,
                                            Str("Unknown"))
                          @@ "avatarUrl" :>
                               FirstPresent(obj, <<"avatarUrl", "avatar_url",
                                                   "avatar">>, Undefined))

\* { author: { id: "u1", username: "bob" } } gave
\* { id: "u1", name: "bob", avatarUrl: undefined }
EmbeddedAuthorFieldsWitness ==
    \E x \in InvocationsOf("withAuthor") :
       /\ x.unit.cfg = "default"
       /\ Present(x.e.source, "author")
       /\ x.e.source["author"] =
             Obj("id" :> Str("u1") @@ "username" :> Str("bob"))
       /\ x.e.done
       /\ x.e.out["author"] =
             Obj("id" :> Str("u1") @@ "name" :> Str("bob")
                 @@ "avatarUrl" :> Undefined)

\* C14: on a source with neither an embedded author nor an embedded user
\* object, and nothing overridden, withAuthor returns and the author has
\* the first present of authorId, author_id, userId, user_id as id, or
\* "unknown" when none is present, the name "Unknown" and no avatarUrl.
ScalarAuthorFallback ==
    \A x \in InvocationsOf("withAuthor") :
       LET opts == AuthorOpts(x.unit.cfg)
       IN  (AuthorRung(opts, x.e.source) = "scalar" /\ NoFieldOverride(opts))
           => /\ x.e.done
              /\ x.e.out["author"] =
                   Obj("id" :> FirstPresent(x.e.source, ScalarIdKeys,
                                            Str("unknown"))
                       @@ "name" :> Str("Unknown")
                       @@ "avatarUrl" :> Undefined)

\* a source with author_id, userId and user_id but no authorId and no
\* embedded object was mapped: the id is author_id
ScalarAuthorFallbackWitness ==
    \E x \in InvocationsOf("withAuthor") :
       /\ x.unit.cfg = "default"
       /\ x.e.done
       /\ ~Present(x.e.source, "author") /\ ~Present(x.e.source, "user")
       /\ ~Present(x.e.source, "authorId")
       /\ Present(x.e.source, "author_id") /\ Present(x.e.source, "userId")
       /\ x.e.out["author"].v["id"] = x.e.source["author_id"]
       /\ x.e.out["author"].v["name"] = Str("Unknown")

\* a field of the author: the configured override, else the field as the
\* mapper without overrides resolves it
OverriddenOr(override, source, field) ==
    IF override # NotSet THEN ResolveSelector(source, override)
    ELSE ExtractAuthor(source, NoAuthorOpts).v[field]

\* C15: without a full author override, a configured authorId, authorName
\* or avatarUrl override determines the output id, name or avatarUrl, in
\* the embedded-object branch and in the scalar branch alike, and the other
\* fields are what they are without that override.
FieldOverridesIndependent ==
    \A x \in InvocationsOf("withAuthor") :
       LET opts == AuthorOpts(x.unit.cfg)
           source == x.e.source
       IN  (opts.author = NotSet /\ x.e.done) =>
             x.e.out["author"] =
                Obj("id" :> OverriddenOr(opts.authorId, source, "id")
                    @@ "name" :> OverriddenOr(opts.authorName, source, "name")
                    @@ "avatarUrl" :>
                         OverriddenOr(opts.avatarUrl, source, "avatarUrl"))

\* C16: withTimestamps is total: whatever the source holds under the
\* timestamp fields (nothing, one naming style, both, a Date, a number, a
\* string that does not parse) the call returns createdAt and updatedAt,
\* both Dates, and never raises; a Date in the source is returned as it is
\* and a missing field becomes the time of the call.
TimestampsTotal ==
    \A x \in InvocationsOf("withTimestamps") :
       /\ x.e.done
       /\ DOMAIN x.e.out = {"createdAt", "updatedAt"}
       /\ \A k \in DOMAIN x.e.out : x.e.out[k].t = "Date"
       /\ x.unit.cfg = "default" =>
            \A f \in {<<"createdAt", "created_at">>,
                      <<"updatedAt", "updated_at">>} :
               LET input == FirstPresent(x.e.source, f, Undefined)
               IN  /\ input.t = "Date" => x.e.out[f[1]] = input
                   /\ input = Undefined => x.e.out[f[1]] = DateV(x.e.at)

\* one call got an unparsable string for createdAt and a Date for
\* updatedAt: it returned an invalid Date and the very Date
TimestampsTotalWitness ==
    \E x \in InvocationsOf("withTimestamps") :
       /\ x.unit.cfg = "default"
       /\ x.e.done
       /\ Present(x.e.source, "createdAt")
       /\ x.e.source["createdAt"] = Str("garbage")
       /\ x.e.out["createdAt"] = DateV(InvalidTime)
       /\ Present(x.e.source, "updatedAt")
       /\ x.e.source["updatedAt"].t = "Date"
       /\ x.e.out["updatedAt"] = x.e.source["updatedAt"]

\* the outcomes of the functions that combine has applied so far, each with
\* the function applied
Applications ==
    IF mode = "combine"
    THEN {[fn |-> pipe["A"][j], o |-> mapped[j]] : j \in 1..Len(mapped)}
    ELSE {}

\* the key an fp embedder configured with target key `cfg` writes
WrittenKey(key, cfg) == IF cfg = "" THEN key ELSE cfg

\* C17: the has-one embedder maps an absent or falsy raw input (undefined,
\* null, false, 0, "") to its single key holding null, without calling the
\* nested derive function and without raising; a truthy raw input to that
\* key holding nestedDeriveFn(raw), called once.  For withHasOne of the
\* function realization and withOne of the fp realization.
HasOneNullOnAbsence ==
    /\ \A x \in InvocationsOf("withLead") :
          LET raw == Get(x.e.source, "lead")
              o == Enhance(x.unit, x.e.source, x.e.acc, x.e.at)
              nested == CreateComment(raw, x.e.at)
          IN  IF ~Truthy(raw)
              THEN x.e.done /\ x.e.out = "lead" :> Null /\ o.calls = 0
              ELSE IF nested.threw THEN ~x.e.done
              ELSE /\ x.e.done
                   /\ x.e.out = "lead" :> Obj(nested.view)
                   /\ o.calls = 1
    /\ \A a \in Applications :
          a.fn.kind = "withOne" =>
             LET raw == Get(given["A"], "lead")
                 key == WrittenKey("lead", a.fn.cfg)
             IN  IF ~Truthy(raw)
                 THEN a.o.out = key :> Null /\ a.o.calls = 0
                 ELSE /\ a.o.out = key :> Obj(FpCommentBase(raw, FALSE).out)
                      /\ a.o.calls = 1

\* C18: the has-many embedder always yields a sequence: a raw input that is
\* absent, null, undefined or not an array gives the empty sequence under
\* the relation key and no exception; an array gives a sequence of the same
\* length whose i-th element is nestedDeriveFn of the i-th raw element.
\* For withHasMany of the function realization and withMany of the fp
\* realization.
HasManyAlwaysSequence ==
    /\ \A x \in InvocationsOf("withComments") :
          LET raw == Get(x.e.source, "comments")
          IN  IF raw.t # "array"
              THEN x.e.done /\ x.e.out = "comments" :> Arr(<< >>)
              ELSE LET nested == [i \in 1..Len(raw.v) |->
                                     CreateComment(raw.v[i], x.e.at)]
                   IN  IF \E i \in 1..Len(raw.v) : nested[i].threw
                       THEN ~x.e.done
                       ELSE /\ x.e.done
                            /\ x.e.out = "comments" :>
                                 Arr([i \in 1..Len(raw.v) |->
                                         Obj(nested[i].view)])
    /\ \A a \in Applications :
          a.fn.kind = "withMany" =>
             LET raw == Get(given["A"], "comments")
                 key == WrittenKey("comments", a.fn.cfg)
             IN  IF raw.t # "array" THEN a.o.out = key :> Arr(<< >>)
                 ELSE a.o.out = key :>
                        Arr([i \in 1..Len(raw.v) |->
                                Obj(FpCommentBase(raw.v[i], FALSE).out)])
    /\ (mode = "combine" /\ status["A"] = "raised"
        /\ pipe["A"][Len(mapped) + 1].kind = "withMany") =>
          Get(given["A"], "comments").t = "array"

TimestampedIffBothKeys ==
    /\ asked.made =>
          /\ asked.answer \in {Bool(TRUE), Bool(FALSE)}
          /\ asked.answer = Bool(TRUE) <=>
               /\ asked.arg.t = "object"
               /\ {"createdAt", "updatedAt"} \subseteq DOMAIN asked.arg.v
    /\ (mode = "view" /\ probe.key = "isTimestamped()") =>
          probe.last =
             Bool({"createdAt", "updatedAt"} \subseteq DOMAIN result["A"])
    /\ (mode = "class" /\ probe.key = "isTimestamped()") =>
          probe.last =
             Bool(\A k \in {"createdAt", "updatedAt"} :
                     \E n \in 1..Len(inst.class) : k \in LayerKeys(inst.class[n]))

\* the guard was asked about an object that has both keys, one of them
\* holding undefined and the other null, and answered true
TimestampedIffBothKeysWitness ==
    /\ asked.made
    /\ asked.arg = Obj("createdAt" :> Undefined @@ "updatedAt" :> Null)
    /\ asked.answer = Bool(TRUE)

\* the pipeline or the mixin list that made the view contains the Author
\* mapper
MadeWithAuthor ==
    IF mode = "class"
    THEN \E n \in 1..Len(inst.class) : inst.class[n].kind = "withAuthor"
    ELSE \E j \in 1..Len(pipe["A"]) : pipe["A"][j].kind = "withAuthor"

\* C21 as stated: isAuthored(view) is true when the pipeline that made the
\* view contains the Author mapper and false when it does not.
AuthoredIffAuthorMapper ==
    (mode \in {"view", "class"} /\ probe.key = "isAuthored()") =>
       probe.last = Bool(MadeWithAuthor)

\* C21: isAuthored(view) is true when the pipeline (or mixin list) that made
\* the view contains the Author mapper, and false when no unit of it put an
\* author key on the view.
AuthoredIffAuthorKey ==
    (mode \in {"view", "class"} /\ probe.key = "isAuthored()") =>
       /\ MadeWithAuthor => probe.last = Bool(TRUE)
       /\ (mode = "view"
           /\ \A j \in 1..Len(log["A"]) : "author" \notin DOMAIN log["A"][j].out)
             => probe.last = Bool(FALSE)
       /\ (mode = "class" /\ ~MadeWithAuthor) => probe.last = Bool(FALSE)

\* the guard was called on a view of a pipeline with the Author mapper, and
\* answered true
AuthoredIffAuthorKeyWitness ==
    /\ mode = "view"
    /\ probe.key = "isAuthored()"
    /\ MadeWithAuthor
    /\ "author" \in DOMAIN result["A"]
    /\ probe.last = Bool(TRUE)

\* C22: for every value x the isWatchable of the function realization and
\* the isWatchable of the class realization give the same answer, which is
\* true exactly when x is a non-null object with the keys isWatched,
\* watcherType and watcherId.
WatchableGuardsAgree ==
    asked.made =>
       /\ asked.watchableFn = asked.watchableClass
       /\ asked.watchableFn =
            Bool(/\ asked.arg.t = "object"
                 /\ {"isWatched", "watcherType", "watcherId"}
                       \subseteq DOMAIN asked.arg.v)

\* C23: resolveSelector(source, c) calls a function c once, with the source,
\* and returns its result; returns a literal c itself and calls nothing;
\* lets an error of the selector reach the caller as it is; and its two
\* copies give equal results on equal inputs.
ResolveSelectorContract ==
    resolved.made =>
       LET c == resolved.selectorOrValue
       IN  /\ c.fn =>
                /\ resolved.called = <<resolved.source>>
                /\ resolved.result = ApplySelector(c.name, resolved.source)
                /\ c.name = "throws" =>
                      resolved.result = Thrown("SelectorError")
           /\ ~c.fn =>
                /\ resolved.called = << >>
                /\ resolved.result = c.v
           /\ resolved.resultOfClass = resolved.result
           /\ resolved.calledOfClass = resolved.called

\* a selector function was resolved against a source and gave a field of
\* that very source
ResolveSelectorContractWitness ==
    /\ resolved.made
    /\ resolved.selectorOrValue = Sel("s.id")
    /\ resolved.called = <<resolved.source>>
    /\ resolved.result = resolved.source["id"]
    /\ resolved.resultOfClass = resolved.source["id"]

\* C24: the watch toggle's local state starts as the view's isWatched; after
\* any setter calls it is the argument of the latest call; every call with
\* value v has emitted one notification (watcherType, watcherId, v) of that
\* view, and the notifications are in the order of the calls.
ToggleFollowsSetter ==
    /\ ~toggle.mounted => notes = << >>
    /\ toggle.mounted =>
          /\ toggle.isWatched =
               IF toggle.args = << >> THEN Get(result["A"], "isWatched")
               ELSE Bool(toggle.args[Len(toggle.args)])
          /\ Len(notes) = Len(toggle.args)
          /\ \A k \in 1..Len(notes) :
                notes[k] = [watcherType |-> Get(result["A"], "watcherType"),
                            watcherId |-> Get(result["A"], "watcherId"),
                            isWatched |-> Bool(toggle.args[k])]

\* the setter was called with true and then with false on the toggle of a
\* watched task: two notifications in that order, local state false
ToggleFollowsSetterWitness ==
    /\ toggle.mounted
    /\ Get(result["A"], "isWatched") = Bool(TRUE)
    /\ toggle.args = <<TRUE, FALSE>>
    /\ toggle.isWatched = Bool(FALSE)
    /\ Len(notes) = 2
    /\ notes[1].isWatched = Bool(TRUE) /\ notes[2].isWatched = Bool(FALSE)
    /\ notes[2].watcherType = Str("task")
    /\ notes[2].watcherId = result["A"]["id"]

\* the enhancer list that corresponds to a class: taskBase for TaskBase and
\* the enhancer of each mixin, in the order applied
EnhancersOf(class) ==
    [n \in 1..Len(class) |->
        IF class[n].kind = "TaskBase" THEN Unit("taskBase", "") ELSE class[n]]

\* the fields that both realizations of a behavior expose
SharedFields ==
    {"author", "isWatched", "watcherType", "watcherId", "createdAt",
     "updatedAt"}

\* C25: for every source and the same behaviors in the same order with the
\* same configuration, the instance that applyMixins and createFactory
\* build and the view that composeModel builds hold equal author,
\* isWatched, watcherType, watcherId and, unless defaulted to the clock,
\* createdAt and updatedAt.
RealizationsAgree ==
    (mode = "class" /\ inst.made
     /\ \A n \in 1..Len(inst.class) : inst.class[n].kind # "titled") =>
       LET f == ComposeModel(inst.source, EnhancersOf(inst.class), now)
       IN  ~f.threw =>
             \A key \in SharedFields :
                <<key>> \notin f.dflt =>
                   ClassGet(inst.class, inst.source, key, now)
                      = Get(f.view, key)

\* C26: every derivation ends: a call of composeModel that is running
\* eventually has returned a view or raised, also when an enhancer calls the
\* build callback it is given.
DerivationEnds ==
    \A d \in Derivs :
       (status[d] = "running") ~> (status[d] \in {"returned", "raised"})

\* a derivation has returned whose log holds a nested run started by an
\* enhancer through build(), with an enhancer invoked inside that run
DerivationEndsWitness ==
    /\ mode = "engine"
    /\ status["A"] = "returned"
    /\ Len(seeds["A"]) > 1
    /\ \E j \in 1..Len(log["A"]) :
          log["A"][j].build > 1 /\ log["A"][j].done

\* what extractAuthor gives for an instance's own source and the options of
\* the WithAuthor mixin whose getter the instance inherits
OwnAuthor(x) ==
    ExtractAuthor(x.source,
        AuthorOpts(x.class[Declaring(x.class, Len(x.class), "author")].cfg))

AuthoredInstances ==
    IF mode # "authored" THEN {}
    ELSE {x \in {inst, twin} : x.made /\ InInstance(x.class, "author")}

NestCalls(d) ==
    {j \in 1..Len(log[d]) : CallsBuild(pipe[d][log[d][j].i], log[d][j].acc)}

\* the number of the build that the call logged at position j started
Opened(d, j) == 1 + Cardinality({k \in NestCalls(d) : k <= j})

\* C28: a call of build(overrides) from inside an enhancer runs the whole
\* enhancer list again on the same source, seeded with the caller's
\* accumulator merged with the overrides (an override winning over the
\* accumulator's value for a key, an enhancer's output winning over the
\* seed); the outer accumulator is what it was before the call, and the
\* enhancer after the caller sees it changed only by the partial the caller
\* returned.
NestedBuildSeeded ==
    \A d \in Derivs :
       \A j \in NestCalls(d) :
          LET e == log[d][j]
              b == Opened(d, j)
              es == EntriesOf(d, b)
              after == SelectSeq(log[d],
                          LAMBDA x : x.build = e.build /\ x.i = e.i + 1)
          IN  /\ b <= Len(seeds[d])
              /\ DOMAIN seeds[d][b] = DOMAIN e.acc \cup DOMAIN NestOverrides
              /\ \A key \in DOMAIN seeds[d][b] :
                    seeds[d][b][key] = IF key \in DOMAIN NestOverrides
                                       THEN NestOverrides[key]
                                       ELSE e.acc[key]
              /\ \A h \in 1..Len(es) :
                    /\ es[h].i = h
                    /\ es[h].source = e.source
              /\ es # << >> => es[1].acc = seeds[d][b]
              /\ ~e.done => after = << >>
              /\ e.done =>
                    /\ Len(es) = Len(pipe[d])
                    /\ e.out = ("child" :>
                                  Obj(FoldOuts(seeds[d][b], es, Len(es))))
                    /\ \A h \in 1..Len(after) :
                          /\ DOMAIN after[h].acc = DOMAIN e.acc \cup {"child"}
                          /\ after[h].acc["child"] = e.out["child"]
                          /\ \A key \in DOMAIN e.acc \ {"child"} :
                                after[h].acc[key] = e.acc[key]

\* a returned derivation in which build() was called with an override for
\* a key the accumulator held with another value, and in the nested run an
\* enhancer's output replaced the seeded value
NestedBuildSeededWitness ==
    \E d \in Derivs :
       /\ status[d] = "returned"
       /\ \E j \in NestCalls(d) :
             LET e == log[d][j]
                 seed == seeds[d][Opened(d, j)]
             IN  /\ e.done
                 /\ Has(e.acc, "a")
                 /\ seed["a"] = NestOverrides["a"]
                 /\ seed["a"] # e.acc["a"]
                 /\ Get(e.out["child"].v, "a") # seed["a"]
                 /\ Get(result[d], "a") = e.acc["a"]

\* the timestamp a configured override gives at clock reading t: the clock
\* when it resolves to undefined, else the conversion of what it resolves to
OverrideDate(override, source, t) ==
    LET v == ResolveSelector(source, override)
    IN  IF v = Undefined THEN DateV(t) ELSE ToDate(v, t)

\* C29: with an override configured for createdAt (or updatedAt), the
\* field is the conversion of what the override resolves to and the
\* source's createdAt / created_at (updatedAt / updated_at) play no part:
\* an override resolving to undefined gives the time of the call, also
\* when the source has the field; for the function and the class version.
OverrideShadowsSource ==
    /\ \A x \in InvocationsOf("withTimestamps") :
          LET opts == TimestampsOpts(x.unit.cfg)
          IN  x.e.done =>
                /\ opts.createdAt # NotSet =>
                      x.e.out["createdAt"] =
                         OverrideDate(opts.createdAt, x.e.source, x.e.at)
                /\ opts.updatedAt # NotSet =>
                      x.e.out["updatedAt"] =
                         OverrideDate(opts.updatedAt, x.e.source, x.e.at)
    /\ (mode = "class" /\ probe.n > 0
        /\ probe.key \in {"createdAt", "updatedAt"}
        /\ InInstance(inst.class, probe.key)) =>
          LET n == Declaring(inst.class, Len(inst.class), probe.key)
              opts == TimestampsOpts(inst.class[n].cfg)
              override == IF probe.key = "createdAt" THEN opts.createdAt
                          ELSE opts.updatedAt
          IN  override # NotSet =>
                 IF ResolveSelector(inst.source, override) = Undefined
                 THEN probe.last.t = "Date" /\ probe.last.v \in 20000..now
                 ELSE probe.last = OverrideDate(override, inst.source, now)

\* withTimestamps({ createdAt: s => s.publishedAt }) ran on a source that
\* has createdAt and no publishedAt, and gave the time of the call
OverrideShadowsSourceWitness ==
    \E x \in InvocationsOf("withTimestamps") :
       /\ x.unit.cfg = "published"
       /\ x.e.done
       /\ Present(x.e.source, "createdAt")
       /\ ~Has(x.e.source, "publishedAt")
       /\ x.e.out["createdAt"] = DateV(x.e.at)
       /\ x.e.out["createdAt"] # ToDate(x.e.source["createdAt"], x.e.at)

\* the raw deletion time of a source: deletedAt, else deleted_at when
\* deletedAt is null, undefined or missing
RawDeletedAt(source) ==
    IF Present(source, "deletedAt") THEN source["deletedAt"]
    ELSE Get(source, "deleted_at")

\* the deletedAt that the soft-delete rule gives at clock reading t
DeletedAtOf(source, t) ==
    IF Truthy(RawDeletedAt(source)) THEN ToDate(RawDeletedAt(source), t)
    ELSE Null

SoftDeletableClass ==
    ApplyMixins(TaskBaseClass, <<Unit("withSoftDelete", "")>>)

\* C30: withSoftDelete outputs deletedAt = null when the raw value
\* (deletedAt, else deleted_at) is absent or falsy and its date conversion
\* otherwise, and isDeleted = (deletedAt is not null); the getters of the
\* class WithSoftDelete give the same two values for the same source.
SoftDeleteConsistent ==
    /\ \A x \in InvocationsOf("withSoftDelete") :
          x.e.done =>
            /\ x.e.out["deletedAt"] = DeletedAtOf(x.e.source, x.e.at)
            /\ x.e.out["isDeleted"] = Bool(x.e.out["deletedAt"] # Null)
            /\ \A key \in {"deletedAt", "isDeleted"} :
                  ClassGet(SoftDeletableClass, x.e.source, key, x.e.at)
                     = x.e.out[key]
    /\ (mode = "class" /\ probe.n > 0 /\ InInstance(inst.class, probe.key)) =>
          /\ probe.key = "deletedAt" =>
                probe.last = DeletedAtOf(inst.source, now)
          /\ probe.key = "isDeleted" =>
                probe.last = Bool(DeletedAtOf(inst.source, now) # Null)

\* withSoftDelete ran on a source whose deletedAt is null and whose
\* deleted_at holds a time, and reported the record deleted at that time
SoftDeleteConsistentWitness ==
    \E x \in InvocationsOf("withSoftDelete") :
       /\ x.e.done
       /\ Has(x.e.source, "deletedAt")
       /\ x.e.source["deletedAt"] = Null
       /\ Truthy(Get(x.e.source, "deleted_at"))
       /\ x.e.out["deletedAt"] = ToDate(x.e.source["deleted_at"], x.e.at)
       /\ x.e.out["isDeleted"] = Bool(TRUE)

====
